---- MODULE Spec2Model ----
(***************************************************************************)
(* Model of limitador's in-memory counter store and registry.              *)
(*                                                                         *)
(*   src/limitador/src/storage/in_memory.rs   InMemoryStorage              *)
(*   src/limitador/src/storage/mod.rs         Storage, CounterValueSet,    *)
(*                                            CounterValueSetKey           *)
(*   src/limitador/src/storage/concurrent/counter.rs  ConcurrentCounter    *)
(*   src/limitador/src/lib.rs                 RateLimiter                  *)
(*                                                                         *)
(* Time is counted in whole seconds.  An Option<T> is a sequence of        *)
(* length 0 (None) or 1 (Some).  A map is a function whose DOMAIN is the   *)
(* set of keys present.                                                    *)
(***************************************************************************)
EXTENDS Integers, Sequences, FiniteSets, TLC

(***************************************************************************)
(* Bounds of the model.                                                    *)
(***************************************************************************)
\* the clock stops advancing at MaxTime
MaxTime == 2
\* deltas are drawn from 1..MaxDelta (0 is added where a claim asks for it)
MaxDelta == 2
\* update_counter does not check the maximum: its guard caps the count here
MaxValue == 3
\* the threads that make decisions at the same time
NProcs == 3
\* the calls counted in one run of successive decisions
MaxCalls == 4
\* the longest window, in seconds, of the limits that share an id
MaxWindow == 2
\* the width in bits of the unsigned integers where a claim is about their
\* range (u64 in the code)
Width == 3
\* the spans of one trace
MaxSpans == 3

(***************************************************************************)
(* The limits, the request values and the counters of the model.           *)
(***************************************************************************)
None == << >>
Some(x) == << x >>

\* Limit::new(namespace, max_value, seconds, conditions, variables) + name
MkLimit(ns, max, secs, conds, vars, name) ==
  [ id |-> None, namespace |-> ns, max_value |-> max, seconds |-> secs,
    name |-> name, conditions |-> conds, variables |-> vars ]

CondGet == [ var |-> "method", op |-> "==", lit |-> "GET" ]

\* a simple limit without a name: 2 per 2 seconds, for GET requests
L1 == MkLimit("A", 2, 2, {CondGet}, {}, None)
\* a simple limit named "second": 1 per second
L2 == MkLimit("A", 1, 1, {}, {}, Some("second"))
\* a qualified limit named "per_user": 2 per 2 seconds and per user
LQ == MkLimit("A", 2, 2, {}, {"user"}, Some("per_user"))

\* a limit of another namespace
LB == MkLimit("B", 1, 1, {}, {}, None)
\* a limit equal to L1 with another max_value and a name
L1b == MkLimit("A", 3, 2, {CondGet}, {}, Some("other"))

Limits == {L1, L2, LQ}
Namespaces == {l.namespace : l \in Limits}
Users == {"a", "b"}
Methods == {"GET", "POST"}

\* the request attribute maps: a method, and a user or none
ValuesSet ==
  { [ v \in {"method"} |-> m ] : m \in Methods }
    \cup { [ v \in {"method", "user"} |-> IF v = "method" THEN m ELSE u ] :
             m \in Methods, u \in Users }

VARIABLES
  limits,              \* Storage.limits: namespace -> set of limits
  counters,            \* InMemoryStorage.counters: key -> CounterValueSet
  qualified_counters,  \* InMemoryStorage.qualified_counters: the cache
  limit_windows,       \* InMemoryStorage.limit_windows: key -> windows
  now,                 \* SystemTime::now(), in seconds
  last,                \* the last call made, its arguments and its result
  run,                 \* a series of decisions on one counter in one window
  procs,               \* the decisions in flight, when they run concurrently
  peak,                \* the most decisions that were committing at one time
  data,                \* ConcurrentStorage.data: name -> ConcurrentNamespace
  concurrent_counter,  \* a ConcurrentCounter: value, expires_at, duration
  redis,               \* the Redis database: counter key -> value and expiry
  spans,               \* the spans of the tracing registry, by id
  consumed             \* the calls made to the consumers of MetricsLayer

Procs == 1..NProcs
\* a thread that is not in a call
Idle == [ pc |-> "idle", at |-> 0, delta |-> 0, expiry |-> 0 ]

\* a ConcurrentCounter that never counted: value 0, expires_at the epoch
ConcurrentCounter_new == [ value |-> 0, expires_at |-> 0, duration |-> 2 ]

storeVars == << limits, counters, qualified_counters, limit_windows >>
\* what the calls that run alone leave as it is
\* the state of the concurrent storage and of Redis, which the in-memory
\* store and the registry never touch
other_stores == << data, concurrent_counter, redis, spans, consumed >>
aux == << run, procs, peak, other_stores >>

(***************************************************************************)
(* Maps.                                                                   *)
(***************************************************************************)
EmptyMap == [ k \in {} |-> 0 ]
Put(m, k, v) == [ x \in (DOMAIN m) \cup {k} |-> IF x = k THEN v ELSE m[x] ]
Remove(m, k) == [ x \in (DOMAIN m) \ {k} |-> m[x] ]

(***************************************************************************)
(* Limit and Counter (crate::limit, crate::counter).                       *)
(***************************************************************************)
\* Limit's PartialEq: max_value and name take no part (update_limit looks a
\* limit up by equality and then compares max_value and name)
LimitEq(a, b) ==
  /\ a.namespace = b.namespace
  /\ a.seconds = b.seconds
  /\ a.conditions = b.conditions
  /\ a.variables = b.variables

\* Condition: the variable is bound and the operator holds
ConditionApplies(c, values) ==
  /\ c.var \in DOMAIN values
  /\ IF c.op = "==" THEN values[c.var] = c.lit ELSE values[c.var] # c.lit

\* Limit::applies: every condition holds and every variable is bound
applies(limit, values) ==
  /\ \A c \in limit.conditions : ConditionApplies(c, values)
  /\ \A v \in limit.variables : v \in DOMAIN values

\* Counter::new: the limit and the values of the limit's variables
NewCounter(limit, values) ==
  [ limit |-> limit,
    set_variables |-> [ v \in limit.variables \cap DOMAIN values |-> values[v] ] ]

is_qualified(counter) == counter.set_variables # EmptyMap

\* every counter of the model's limits
Counters ==
  { NewCounter(l, vs) : l \in {x \in Limits : x.variables = {}}, vs \in {EmptyMap} }
    \cup { NewCounter(l, [ v \in {"user"} |-> u ]) :
             l \in {x \in Limits : x.variables # {}}, u \in Users }

(***************************************************************************)
(* Keys (storage/mod.rs).                                                  *)
(***************************************************************************)
\* From<&Limit> for LimitKey
LimitKey(limit) ==
  [ namespace |-> limit.namespace, window |-> limit.seconds,
    conditions |-> limit.conditions, variables |-> limit.variables ]

\* From<&Limit> for CounterValueSetKey
CounterValueSetKey(limit) ==
  IF limit.id # None
    THEN [ tag |-> "Identity", id |-> limit.id, key |-> None ]
    ELSE [ tag |-> "Anonymous", id |-> None, key |-> Some(LimitKey(limit)) ]

\* LimitKey::applies_to
LimitKey_applies_to(key, limit) ==
  /\ limit.namespace = key.namespace
  /\ limit.seconds = key.window
  /\ limit.conditions = key.conditions
  /\ limit.variables = key.variables

\* CounterValueSetKey::applies_to
applies_to(k, limit) ==
  IF limit.id = None
    THEN k.tag = "Anonymous" /\ LimitKey_applies_to(k.key[1], limit)
    ELSE k.tag = "Identity" /\ k.id = limit.id

\* the key of a qualified counter without its qualifiers: one entry for all
\* the bindings of a limit
key_of_every_binding(counter) ==
  [ limit_key |-> CounterValueSetKey(counter.limit), qualifiers |-> EmptyMap ]

\* From<&Counter> for QualifiedCounterValueSetKey
QualifiedCounterValueSetKey(counter) ==
  [ limit_key |-> CounterValueSetKey(counter.limit),
    qualifiers |-> counter.set_variables ]

(***************************************************************************)
(* The atomic expiring value: one window's count and expiry.               *)
(* A slot is [seconds, value, expiry]: CounterValue.seconds with the       *)
(* value and expiry of its AtomicExpiringValue.                            *)
(***************************************************************************)
\* CounterValue::from_secs: count 0, expiry at the epoch
from_secs(window) == [ seconds |-> window, value |-> 0, expiry |-> 0 ]

\* next_at with at > expiry for at >= expiry: an increment at the very end
\* of the window still counts into it
next_at_late(c, at, delta) ==
  IF at > c.expiry
    THEN [ c EXCEPT !.expiry = at + c.seconds, !.value = delta ]
    ELSE [ c EXCEPT !.value = c.value + delta ]

\* next_at as a sliding window: every increment moves the expiry
next_at_sliding(c, at, delta) ==
  IF at >= c.expiry
    THEN [ c EXCEPT !.expiry = at + c.seconds, !.value = delta ]
    ELSE [ c EXCEPT !.expiry = at + c.seconds, !.value = c.value + delta ]

\* ConcurrentCounter::next_at, run without interference: a counter whose
\* window is over restarts at delta and expires at + duration from now on,
\* a live one adds delta and keeps its expiry
next_at(c, at, delta) ==
  IF at >= c.expiry
    THEN [ c EXCEPT !.expiry = at + c.seconds, !.value = delta ]
    ELSE [ c EXCEPT !.value = c.value + delta ]

\* AtomicExpiringValue::update(delta, ttl, when): the step of next_at with
\* the window given by the caller
update(v, delta, ttl, when) ==
  [ next_at([ v EXCEPT !.seconds = ttl ], when, delta) EXCEPT !.seconds = v.seconds ]

\* AtomicExpiringValue::value_at: the count while the window is live, else 0
value_at(v, when) == IF when < v.expiry THEN v.value ELSE 0

\* AtomicExpiringValue::ttl: the time left in the window
ttl(v, when) == IF v.expiry > when THEN v.expiry - when ELSE 0

(***************************************************************************)
(* CounterValueSet (storage/mod.rs).                                       *)
(***************************************************************************)
\* CounterValueSet::new
CounterValueSet_new(windows) ==
  [ i \in 1..Len(windows) |-> from_secs(windows[i]) ]

\* the loop shared by add_window, value, expiring_value_of and update: the
\* index of the first slot whose seconds equal the window, looking no
\* further than the first slot with more seconds; 0 when there is none
RECURSIVE find_slot(_, _, _)
find_slot(values, window, i) ==
  IF i > Len(values) THEN 0
  ELSE IF values[i].seconds < window THEN find_slot(values, window, i + 1)
  ELSE IF values[i].seconds = window THEN i
  ELSE 0

\* add_window without its sort_by: the new slot stays at the end
unsorted(values) == values

\* sort_by(|a, b| a.seconds.cmp(&b.seconds)): a stable sort
RECURSIVE sort_by_seconds(_)
sort_by_seconds(values) ==
  IF Len(values) <= 1 THEN values
  ELSE LET rest == sort_by_seconds(SubSeq(values, 1, Len(values) - 1))
           x == values[Len(values)]
           before == SelectSeq(rest, LAMBDA y : y.seconds <= x.seconds)
           after == SelectSeq(rest, LAMBDA y : y.seconds > x.seconds)
       IN  before \o << x >> \o after

\* CounterValueSet::add_window
add_window(values, window) ==
  IF find_slot(values, window, 1) # 0 THEN values
  ELSE sort_by_seconds(Append(values, from_secs(window)))

\* CounterValueSet::value
CounterValueSet_value(values, window, when) ==
  LET i == find_slot(values, window, 1)
  IN  IF i = 0 THEN 0 ELSE value_at(values[i], when)

\* CounterValueSet::expiring_value_of: the slot's index, 0 for None
expiring_value_of(values, window) == find_slot(values, window, 1)

\* CounterValueSet::update: Ok(the values after the update) or Err(())
CounterValueSet_update(values, window, delta, when) ==
  LET i == find_slot(values, window, 1)
  IN  IF i = 0 THEN [ ok |-> FALSE, values |-> values ]
      ELSE [ ok |-> TRUE,
             values |-> [ values EXCEPT ![i] = update(values[i], delta, window, when) ] ]

(***************************************************************************)
(* The qualified-counter cache (moka::sync::Cache), as InMemoryStorage     *)
(* builds and uses it.                                                     *)
(***************************************************************************)
\* get that leaves an empty entry behind where it found none
get_inserting(cache, key) ==
  IF key \in DOMAIN cache THEN cache ELSE [ k \in DOMAIN cache \cup {key} |->
                                              IF k = key THEN << >> ELSE cache[k] ]

\* Cache::get(key): a read, which inserts nothing; the cache after it
get(cache, key) == cache

\* Cache::get_with(key, init): the entry, inserted from init when missing
get_with(cache, key, init) ==
  IF key \in DOMAIN cache THEN cache ELSE Put(cache, key, init)

\* Cache::invalidate_entries_if on the cache that InMemoryStorage::new
\* builds with Cache::new(cache_size): invalidation closures are a builder
\* option that new() does not ask for, so the call registers nothing and
\* returns an error, which delete_counters_of_limit drops (let _ =)
invalidate_entries_if(cache, matching) == cache

\* an invalidate_all that drops nothing
invalidate_none(cache) == cache

\* Cache::invalidate_all
invalidate_all(cache) == EmptyMap

(***************************************************************************)
(* InMemoryStorage (storage/in_memory.rs).                                 *)
(***************************************************************************)
Ok == [ kind |-> "Ok", name |-> None ]
Limited(name) == [ kind |-> "Limited", name |-> name ]

\* the windows of a qualified limit's key: limit_windows.get(key).unwrap()
windows_known(limit) == CounterValueSetKey(limit) \in DOMAIN limit_windows

\* the value that is_within_limits reads: the counter's live count, 0 when
\* the store holds nothing for it
stored_value(counter) ==
  IF is_qualified(counter)
    THEN LET k == QualifiedCounterValueSetKey(counter)
         IN  IF k \in DOMAIN qualified_counters
               THEN CounterValueSet_value(qualified_counters[k],
                                          counter.limit.seconds, now)
               ELSE 0
    ELSE LET k == CounterValueSetKey(counter.limit)
         IN  IF k \in DOMAIN counters
               THEN CounterValueSet_value(counters[k], counter.limit.seconds, now)
               ELSE 0

\* is_within_limits with a strict comparison
is_within_limits_strict(counter, delta) ==
  counter.limit.max_value > stored_value(counter) + delta

\* InMemoryStorage::is_within_limits
is_within_limits(counter, delta) ==
  counter.limit.max_value >= stored_value(counter) + delta

\* Vec::dedup: drops an element equal to the one before it
RECURSIVE dedup(_)
dedup(ws) ==
  IF Len(ws) <= 1 THEN ws
  ELSE LET front == dedup(SubSeq(ws, 1, Len(ws) - 1))
       IN  IF front[Len(front)] = ws[Len(ws)] THEN front
           ELSE Append(front, ws[Len(ws)])

\* Vec::sort on durations
RECURSIVE sort(_)
sort(ws) ==
  IF Len(ws) <= 1 THEN ws
  ELSE LET rest == sort(SubSeq(ws, 1, Len(ws) - 1))
           x == ws[Len(ws)]
       IN  SelectSeq(rest, LAMBDA y : y <= x) \o << x >>
             \o SelectSeq(rest, LAMBDA y : y > x)

\* InMemoryStorage::add_counter: the counters map and the window index after
add_counter(limit) ==
  LET k == CounterValueSetKey(limit)
  IN  IF limit.variables = {}
        THEN [ counters |->
                 Put(counters, k,
                     add_window(IF k \in DOMAIN counters THEN counters[k] ELSE << >>,
                                limit.seconds)),
               limit_windows |-> limit_windows ]
        ELSE [ counters |-> counters,
               limit_windows |->
                 Put(limit_windows, k,
                     sort(dedup(Append(IF k \in DOMAIN limit_windows
                                         THEN limit_windows[k] ELSE << >>,
                                       limit.seconds)))) ]

\* InMemoryStorage::update_counter: the maps after, or a panic
update_counter_in(st, counter, delta) ==
  IF is_qualified(counter)
    THEN LET qk == QualifiedCounterValueSetKey(counter)
         IN  IF qk \notin DOMAIN st.qualified_counters /\ ~windows_known(counter.limit)
               THEN [ panic |-> TRUE, counters |-> st.counters,
                      qualified_counters |-> st.qualified_counters ]
             ELSE
               LET cache == get_with(st.qualified_counters, qk,
                              IF windows_known(counter.limit)
                                THEN CounterValueSet_new(
                                       limit_windows[CounterValueSetKey(counter.limit)])
                                ELSE << >>)
                   r == CounterValueSet_update(cache[qk], counter.limit.seconds, delta, now)
               IN  [ panic |-> ~r.ok, counters |-> st.counters,
                     qualified_counters |-> [ cache EXCEPT ![qk] = r.values ] ]
    ELSE LET k == CounterValueSetKey(counter.limit)
         IN  IF k \notin DOMAIN st.counters
               THEN [ panic |-> TRUE, counters |-> st.counters,
                      qualified_counters |-> st.qualified_counters ]
             ELSE
               LET r == CounterValueSet_update(st.counters[k], counter.limit.seconds, delta, now)
               IN  [ panic |-> ~r.ok,
                     counters |-> [ st.counters EXCEPT ![k] = r.values ],
                     qualified_counters |-> st.qualified_counters ]

\* InMemoryStorage::update_counter on the store as it is
update_counter(counter, delta) ==
  update_counter_in([ panic |-> FALSE, counters |-> counters,
                      qualified_counters |-> qualified_counters ],
                    counter, delta)

\* counter_is_within_limits with the delta left out of the comparison
counter_is_within_limits_without_delta(counter, current_val, delta) ==
  IF current_val # None
    THEN current_val[1] <= counter.limit.max_value
    ELSE counter.limit.max_value >= delta

\* counter_is_within_limits with a strict comparison: the last unit of the
\* maximum is never granted
counter_is_within_limits_strict(counter, current_val, delta) ==
  IF current_val # None
    THEN current_val[1] + delta < counter.limit.max_value
    ELSE counter.limit.max_value > delta

\* InMemoryStorage::counter_is_within_limits
counter_is_within_limits(counter, current_val, delta) ==
  IF current_val # None
    THEN current_val[1] + delta <= counter.limit.max_value
    ELSE counter.limit.max_value >= delta

\* process_counter with the remaining taken from the value alone, without
\* the delta of the call
process_counter_without_delta(counter, value, delta, load_counters, first_limited) ==
  LET remaining == IF counter.limit.max_value >= value + delta
                     THEN Some(counter.limit.max_value - value)
                     ELSE None
  IN  [ remaining |-> IF ~load_counters THEN None
                      ELSE IF remaining = None THEN Some(0) ELSE remaining,
        first_limited |->
          IF load_counters /\ first_limited = None /\ remaining = None
            THEN Some(Limited(counter.limit.name))
            ELSE first_limited,
        limited |->
          IF ~counter_is_within_limits(counter, Some(value), delta)
            THEN Some(Limited(counter.limit.name))
            ELSE None ]

\* the closure process_counter of check_and_update: the counter's remaining,
\* first_limited after it, and what the closure returns
process_counter(counter, value, delta, load_counters, first_limited) ==
  LET remaining == IF counter.limit.max_value >= value + delta
                     THEN Some(counter.limit.max_value - (value + delta))
                     ELSE None
  IN  [ remaining |-> IF ~load_counters THEN None
                      ELSE IF remaining = None THEN Some(0) ELSE remaining,
        first_limited |->
          IF load_counters /\ first_limited = None /\ remaining = None
            THEN Some(Limited(counter.limit.name))
            ELSE first_limited,
        limited |->
          IF ~counter_is_within_limits(counter, Some(value), delta)
            THEN Some(Limited(counter.limit.name))
            ELSE None ]

\* the batch walked in the order it was given, with no partition
batch_order(batch) == batch

\* the order in which check_and_update walks the batch: the simple counters
\* in the batch's order, then the qualified ones in the batch's order
processing_order(batch) ==
  SelectSeq(batch, LAMBDA c : ~is_qualified(c))
    \o SelectSeq(batch, LAMBDA c : is_qualified(c))

\* the two dry-run loops of check_and_update, from counter i of the
\* processing order on.  acc: outcome ("run", "limited", "panic"), auth (the
\* early return), first_limited, and the cache as get_with leaves it
RECURSIVE dry_run(_, _, _, _, _)
dry_run(cs, i, acc, delta, load_counters) ==
  IF i > Len(cs) \/ acc.outcome # "run" THEN acc
  ELSE
    LET counter == cs[i]
        k == CounterValueSetKey(counter.limit)
        window == counter.limit.seconds
    IN
    IF ~is_qualified(counter)
      THEN
        IF k \notin DOMAIN counters THEN [ acc EXCEPT !.outcome = "panic" ]
        ELSE
          LET p == process_counter(counter,
                     CounterValueSet_value(counters[k], window, now),
                     delta, load_counters, acc.first_limited)
          IN  IF p.limited # None /\ ~load_counters
                THEN [ acc EXCEPT !.outcome = "limited", !.auth = p.limited[1] ]
              ELSE IF expiring_value_of(counters[k], window) = 0
                THEN [ acc EXCEPT !.outcome = "panic" ]
              ELSE dry_run(cs, i + 1,
                     [ acc EXCEPT !.first_limited = p.first_limited,
                                  !.remaining = Append(@, p.remaining) ],
                     delta, load_counters)
      ELSE
        LET qk == QualifiedCounterValueSetKey(counter)
        IN
        IF qk \notin DOMAIN acc.cache /\ ~windows_known(counter.limit)
          THEN [ acc EXCEPT !.outcome = "panic" ]
        ELSE
          LET cache == get_with(acc.cache, qk,
                         IF windows_known(counter.limit)
                           THEN CounterValueSet_new(limit_windows[k])
                           ELSE << >>)
              p == process_counter(counter,
                     CounterValueSet_value(cache[qk], window, now),
                     delta, load_counters, acc.first_limited)
          IN  IF p.limited # None /\ ~load_counters
                THEN [ acc EXCEPT !.outcome = "limited", !.auth = p.limited[1],
                                  !.cache = cache ]
              ELSE dry_run(cs, i + 1,
                     [ acc EXCEPT !.first_limited = p.first_limited,
                                  !.remaining = Append(@, p.remaining),
                                  !.cache = cache ],
                     delta, load_counters)

\* the commit of check_and_update without its second loop: the qualified
\* counters are left as they are
RECURSIVE commit_simple_only(_, _, _, _)
commit_simple_only(cs, i, st, delta) ==
  IF i > Len(cs) THEN st
  ELSE IF is_qualified(cs[i]) THEN commit_simple_only(cs, i + 1, st, delta)
  ELSE LET k == CounterValueSetKey(cs[i].limit)
           slot == expiring_value_of(st.counters[k], cs[i].limit.seconds)
       IN  commit_simple_only(cs, i + 1,
             [ st EXCEPT !.counters[k][slot] =
                 update(@, delta, cs[i].limit.seconds, now) ],
             delta)

\* the two commit loops of check_and_update ("Update counters"), from
\* counter i of the processing order on
RECURSIVE commit(_, _, _, _)
commit(cs, i, st, delta) ==
  IF i > Len(cs) \/ st.panic THEN st
  ELSE
    LET counter == cs[i]
        k == CounterValueSetKey(counter.limit)
        window == counter.limit.seconds
    IN
    IF ~is_qualified(counter)
      THEN LET slot == expiring_value_of(st.counters[k], window)
           IN  commit(cs, i + 1,
                 [ st EXCEPT !.counters[k][slot] = update(@, delta, window, now) ],
                 delta)
      ELSE LET qk == QualifiedCounterValueSetKey(counter)
               r == CounterValueSet_update(st.qualified_counters[qk], window, delta, now)
           IN  commit(cs, i + 1,
                 [ st EXCEPT !.panic = ~r.ok, !.qualified_counters[qk] = r.values ],
                 delta)

\* InMemoryStorage::check_and_update: the Authorization (None when the call
\* panics), the remaining written to each counter in processing order, and
\* both maps after the call
check_and_update(batch, delta, load_counters) ==
  LET cs == processing_order(batch)
      dry == dry_run(cs, 1,
               [ outcome |-> "run", auth |-> Ok, first_limited |-> None,
                 remaining |-> << >>, cache |-> qualified_counters ],
               delta, load_counters)
  IN
  IF dry.outcome = "panic"
    THEN [ auth |-> None, remaining |-> dry.remaining,
           counters |-> counters, qualified_counters |-> dry.cache ]
  ELSE IF dry.outcome = "limited"
    THEN [ auth |-> Some(dry.auth), remaining |-> dry.remaining,
           counters |-> counters, qualified_counters |-> dry.cache ]
  ELSE IF dry.first_limited # None
    THEN [ auth |-> dry.first_limited, remaining |-> dry.remaining,
           counters |-> counters, qualified_counters |-> dry.cache ]
  ELSE
    LET done == commit(cs, 1,
                  [ panic |-> FALSE, counters |-> counters,
                    qualified_counters |-> dry.cache ],
                  delta)
    IN  [ auth |-> IF done.panic THEN None ELSE Some(Ok),
          remaining |-> dry.remaining,
          counters |-> done.counters, qualified_counters |-> done.qualified_counters ]

\* a Counter as get_counters returns it: Counter::with_value
with_value(limit, remaining, expires_in, set_variables) ==
  [ limit |-> limit, set_variables |-> set_variables,
    remaining |-> remaining, expires_in |-> expires_in ]

\* max_value - value on u64: below zero the subtraction overflows.  The
\* model keeps the negative difference d, which stands for 2^64 + d
sub_u64(a, b) == a - b

\* CounterValueSet::to_counters
to_counters(values, limit) ==
  { with_value(limit, sub_u64(limit.max_value, value_at(values[i], now)),
               ttl(values[i], now), EmptyMap) : i \in 1..Len(values) }

\* InMemoryStorage::get_counters: the counters with time left, of the simple
\* limits and then of the cache's entries
get_counters(lims) ==
  LET simple ==
        UNION { LET k == CounterValueSetKey(limit)
                IN  IF k \in DOMAIN counters
                      THEN { c \in to_counters(counters[k], limit) : c.expires_in > 0 }
                      ELSE {} :
                limit \in { l \in lims : l.variables = {} } }
      qualified ==
        UNION { { with_value(limit,
                    sub_u64(limit.max_value,
                            CounterValueSet_value(qualified_counters[qk],
                                                  limit.seconds, now)),
                    ttl(qualified_counters[qk][expiring_value_of(qualified_counters[qk],
                                                                 limit.seconds)], now),
                    qk.qualifiers) :
                  limit \in { l \in lims : /\ applies_to(qk.limit_key, l)
                                           /\ expiring_value_of(qualified_counters[qk],
                                                                l.seconds) # 0 } } :
                qk \in DOMAIN qualified_counters }
  IN  simple \cup { c \in qualified : c.expires_in > 0 }

\* what makes get_counters panic: a cache entry without a slot for the
\* window ("There must be value for this window")
get_counters_panics(lims) ==
  \E qk \in DOMAIN qualified_counters : \E l \in lims :
    /\ applies_to(qk.limit_key, l)
    /\ expiring_value_of(qualified_counters[qk], l.seconds) = 0

\* InMemoryStorage::delete_counters_of_limit: both maps after
delete_counters_of_limit(st, limit) ==
  IF limit.variables = {}
    THEN [ st EXCEPT !.counters = Remove(@, CounterValueSetKey(limit)) ]
    ELSE [ st EXCEPT !.qualified_counters =
             invalidate_entries_if(@, CounterValueSetKey(limit)) ]

\* InMemoryStorage::delete_counters: delete_counters_of_limit for each limit
RECURSIVE delete_counters(_, _)
delete_counters(st, lims) ==
  IF lims = {} THEN st
  ELSE LET limit == CHOOSE l \in lims : TRUE
       IN  delete_counters(delete_counters_of_limit(st, limit), lims \ {limit})

\* InMemoryStorage::clear: both maps after
clear_counters ==
  [ counters |-> EmptyMap, qualified_counters |-> invalidate_all(qualified_counters) ]

(***************************************************************************)
(* Storage: the registry (storage/mod.rs).                                 *)
(***************************************************************************)
\* the limits registered in a namespace: Storage::get_limits
get_limits(namespace) ==
  IF namespace \in DOMAIN limits THEN limits[namespace] ELSE {}

registered == UNION { limits[ns] : ns \in DOMAIN limits }

\* HashSet::insert: an equal limit already in the set stays as it is
\* HashSet::replace in the place of insert: the limit given takes the place
\* of the equal one
insert_replacing(set, limit) ==
  { l \in set : ~LimitEq(l, limit) } \cup {limit}

insert(set, limit) ==
  IF \E l \in set : LimitEq(l, limit) THEN set ELSE set \cup {limit}

\* a remove that finds nothing to take out
remove_nothing(set, limit) == set

\* HashSet::remove: the limit equal to the one given leaves the set
remove(set, limit) == { l \in set : ~LimitEq(l, limit) }

\* Storage::get_namespaces
get_namespaces == DOMAIN limits

\* Storage::get_counters
Storage_get_counters(namespace) ==
  IF namespace \in DOMAIN limits THEN get_counters(limits[namespace]) ELSE {}

\* delete_limit's last block without its is_empty test: a namespace left
\* empty stays in the registry
limits_without_keeping_namespace(limit) ==
  IF limit.namespace \in DOMAIN limits
    THEN [ limits EXCEPT ![limit.namespace] = remove(@, limit) ]
    ELSE limits

\* the registry after delete_limit's last block: the limit leaves its
\* namespace, and a namespace left empty leaves the registry
limits_without(limit) ==
  IF limit.namespace \in DOMAIN limits
    THEN LET rest == remove(limits[limit.namespace], limit)
         IN  IF rest = {} THEN Remove(limits, limit.namespace)
             ELSE [ limits EXCEPT ![limit.namespace] = rest ]
    ELSE limits

\* the counters of the limits registered now, which RateLimiter builds its
\* batches from (counters_that_apply)
registered_counters == { c \in Counters : c.limit \in registered }

\* the batches of at most two distinct counters
Batches(cs) ==
  { << c >> : c \in cs }
    \cup { b \in { << c, d >> : c \in cs, d \in cs } : b[1] # b[2] }

\* the count and the expiry the store holds for a counter, as stored
\* (whether or not the window is over); a counter the store holds nothing
\* for has count 0 and the epoch as expiry
stored_slot(counter) ==
  LET window == counter.limit.seconds
      values ==
        IF is_qualified(counter)
          THEN LET k == QualifiedCounterValueSetKey(counter)
               IN  IF k \in DOMAIN qualified_counters THEN qualified_counters[k]
                   ELSE << >>
          ELSE LET k == CounterValueSetKey(counter.limit)
               IN  IF k \in DOMAIN counters THEN counters[k] ELSE << >>
      i == find_slot(values, window, 1)
  IN  IF i = 0 THEN [ value |-> 0, expiry |-> 0 ]
      ELSE [ value |-> values[i].value, expiry |-> values[i].expiry ]

\* the counters of a batch
InBatch(batch) == { batch[i] : i \in 1..Len(batch) }

\* the counters of a batch that hold the count of a window that is over
restarted(batch) ==
  { c \in InBatch(batch) : stored_slot(c).value > 0 /\ now >= stored_slot(c).expiry }

(***************************************************************************)
(* The calls.  Each is one action: a call runs from start to end with no   *)
(* other call in between (the concurrent runs have their own actions).     *)
(***************************************************************************)
Init ==
  /\ limits = EmptyMap
  /\ counters = EmptyMap
  /\ qualified_counters = EmptyMap
  /\ limit_windows = EmptyMap
  /\ now = 0
  /\ last = [ op |-> "new" ]
  /\ run = None
  /\ procs = [ p \in Procs |-> Idle ]
  /\ peak = 0
  /\ data = EmptyMap
  /\ concurrent_counter = ConcurrentCounter_new
  /\ redis = EmptyMap
  /\ spans = << >>
  /\ consumed = << >>

\* time passes
Tick ==
  /\ now < MaxTime
  /\ now' = now + 1
  /\ last' = [ op |-> "tick" ]
  /\ UNCHANGED << storeVars, aux >>

\* Storage::add_limit
add_limit(limit) ==
  LET st == add_counter(limit)
      ns == limit.namespace
  IN  /\ counters' = st.counters
      /\ limit_windows' = st.limit_windows
      /\ limits' = Put(limits, ns, insert(get_limits(ns), limit))
      /\ last' = [ op |-> "add_limit", limit |-> limit,
                   result |-> ~(\E l \in get_limits(ns) : LimitEq(l, limit)) ]
      /\ UNCHANGED << qualified_counters, now, aux >>

\* Storage::delete_limit
delete_limit(limit) ==
  LET found == { l \in get_limits(limit.namespace) : LimitEq(l, limit) }
      arc == IF found = {} THEN limit ELSE CHOOSE l \in found : TRUE
      st == delete_counters([ counters |-> counters,
                              qualified_counters |-> qualified_counters ], {arc})
  IN  /\ counters' = st.counters
      /\ qualified_counters' = st.qualified_counters
      /\ limits' = limits_without(limit)
      /\ last' = [ op |-> "delete_limit", limit |-> limit ]
      /\ UNCHANGED << limit_windows, now, aux >>

\* update_limit that replaces the equal limit whether or not max_value or
\* name differ
limits_updated_always(new_limit) ==
  LET ns == new_limit.namespace
  IN  IF ns \in DOMAIN limits /\ \E l \in limits[ns] : LimitEq(l, new_limit)
        THEN [ result |-> TRUE,
               limits |-> [ limits EXCEPT ![ns] = insert(remove(@, new_limit), new_limit) ] ]
        ELSE [ result |-> FALSE, limits |-> limits ]

\* Storage::update_limit: what it returns and the registry after
limits_updated(new_limit) ==
  LET ns == new_limit.namespace
      req_update ==
        /\ ns \in DOMAIN limits
        /\ \E limit \in limits[ns] :
             /\ LimitEq(limit, new_limit)
             /\ limit.max_value # new_limit.max_value \/ limit.name # new_limit.name
  IN  IF req_update
        THEN [ result |-> TRUE,
               limits |-> [ limits EXCEPT ![ns] = insert(remove(@, new_limit), new_limit) ] ]
        ELSE [ result |-> FALSE, limits |-> limits ]

\* Storage::update_limit
update_limit(new_limit) ==
  /\ limits' = limits_updated(new_limit).limits
  /\ last' = [ op |-> "update_limit", limit |-> new_limit,
               result |-> limits_updated(new_limit).result ]
  /\ UNCHANGED << counters, qualified_counters, limit_windows, now, aux >>

\* Storage::delete_limits
delete_limits(namespace) ==
  LET st == delete_counters([ counters |-> counters,
                              qualified_counters |-> qualified_counters ],
                            get_limits(namespace))
  IN  /\ namespace \in DOMAIN limits
      /\ limits' = Remove(limits, namespace)
      /\ counters' = st.counters
      /\ qualified_counters' = st.qualified_counters
      /\ last' = [ op |-> "delete_limits", namespace |-> namespace ]
      /\ UNCHANGED << limit_windows, now, aux >>

\* Storage::clear
clear ==
  /\ limits' = EmptyMap
  /\ counters' = clear_counters.counters
  /\ qualified_counters' = clear_counters.qualified_counters
  /\ last' = [ op |-> "clear",
               held |-> { c \in Counters : stored_value(c) > 0 } ]
  /\ UNCHANGED << limit_windows, now, aux >>

\* Storage::update_counter, for a counter of a registered limit
UpdateCounter(counter, delta) ==
  LET st == update_counter(counter, delta)
  IN  /\ stored_value(counter) + delta <= MaxValue
      /\ counters' = st.counters
      /\ qualified_counters' = st.qualified_counters
      /\ last' = [ op |-> "update_counter", counter |-> counter, delta |-> delta,
                   panic |-> st.panic, restarted |-> restarted(<< counter >>) ]
      /\ UNCHANGED << limits, limit_windows, now, aux >>

\* Storage::check_and_update
CheckAndUpdate(batch, delta, load_counters) ==
  LET r == check_and_update(batch, delta, load_counters)
  IN  /\ counters' = r.counters
      /\ qualified_counters' = r.qualified_counters
      /\ last' = [ op |-> "check_and_update", batch |-> batch, delta |-> delta,
                   load_counters |-> load_counters, auth |-> r.auth,
                   restarted |-> restarted(batch) ]
      /\ UNCHANGED << limits, limit_windows, now, aux >>

\* counters_that_apply without its filter: a counter for every limit of the
\* namespace, whether or not it applies
counters_of_every_limit(namespace, values) ==
  { NewCounter(lim, values) : lim \in get_limits(namespace) }

\* RateLimiter::counters_that_apply
counters_that_apply(namespace, values) ==
  { NewCounter(lim, values) : lim \in { l \in get_limits(namespace) : applies(l, values) } }

\* RateLimiter::is_rate_limited: some counter that applies is not within
\* its limit
is_rate_limited(namespace, values, delta) ==
  \E counter \in counters_that_apply(namespace, values) :
    ~is_within_limits(counter, delta)

\* the cache after the reads of is_within_limits for each of the counters
RECURSIVE cache_after_reads(_, _)
cache_after_reads(cache, cs) ==
  IF cs = {} THEN cache
  ELSE LET c == CHOOSE x \in cs : TRUE
       IN  cache_after_reads(
             IF is_qualified(c) THEN get(cache, QualifiedCounterValueSetKey(c))
                                ELSE cache,
             cs \ {c})

\* Storage::is_within_limits
IsWithinLimits(counter, delta) ==
  /\ qualified_counters' = cache_after_reads(qualified_counters, {counter})
  /\ last' = [ op |-> "is_within_limits", counter |-> counter, delta |-> delta,
               result |-> is_within_limits(counter, delta) ]
  /\ UNCHANGED << limits, counters, limit_windows, now, aux >>

\* RateLimiter::is_rate_limited
IsRateLimited(namespace, values, delta) ==
  /\ qualified_counters' =
       cache_after_reads(qualified_counters, counters_that_apply(namespace, values))
  /\ last' = [ op |-> "is_rate_limited", namespace |-> namespace,
               values |-> values, delta |-> delta,
               result |-> is_rate_limited(namespace, values, delta) ]
  /\ UNCHANGED << limits, counters, limit_windows, now, aux >>

\* Storage::get_counters
GetCounters(namespace) ==
  /\ last' = [ op |-> "get_counters", namespace |-> namespace,
               result |-> IF get_counters_panics(get_limits(namespace)) THEN None
                          ELSE Some(Storage_get_counters(namespace)) ]
  /\ UNCHANGED << storeVars, now, aux >>

\* the orders in which a set of counters can come (the limits of a
\* namespace are kept in a HashSet)
Orders(cs) ==
  { b \in UNION { [ 1..n -> cs ] : n \in {Cardinality(cs)} } :
      \A i, j \in 1..Len(b) : i # j => b[i] # b[j] }

\* an update of the first counter alone
update_first(cs, i, st, delta) ==
  IF i > Len(cs) THEN st ELSE update_counter_in(st, cs[i], delta)

\* try_for_each(|counter| self.storage.update_counter(&counter, delta))
RECURSIVE update_each(_, _, _, _)
update_each(cs, i, st, delta) ==
  IF i > Len(cs) \/ st.panic THEN st
  ELSE update_each(cs, i + 1, update_counter_in(st, cs[i], delta), delta)

\* RateLimiter::update_counters
UpdateCounters(namespace, values, delta) ==
  \E cs \in Orders(counters_that_apply(namespace, values)) :
    LET st == update_each(cs, 1,
                [ panic |-> FALSE, counters |-> counters,
                  qualified_counters |-> qualified_counters ],
                delta)
    IN  /\ \A c \in InBatch(cs) : stored_value(c) + delta <= MaxValue
        /\ counters' = st.counters
        /\ qualified_counters' = st.qualified_counters
        /\ last' = [ op |-> "update_counters", namespace |-> namespace,
                     values |-> values, delta |-> delta, panic |-> st.panic ]
        /\ UNCHANGED << limits, limit_windows, now, aux >>

\* RateLimiter::check_rate_limited_and_update: Ok(!is_within_limits)
CheckRateLimitedAndUpdate(namespace, values, delta, load_counters) ==
  \E cs \in Orders(counters_that_apply(namespace, values)) :
    LET r == check_and_update(cs, delta, load_counters)
    IN  /\ counters' = r.counters
        /\ qualified_counters' = r.qualified_counters
        /\ last' = [ op |-> "check_rate_limited_and_update",
                     namespace |-> namespace, values |-> values, delta |-> delta,
                     result |-> IF r.auth = None THEN None
                                ELSE Some(r.auth # Some(Ok)) ]
        /\ UNCHANGED << limits, limit_windows, now, aux >>

\* the counters of one user
CountersOf(user) ==
  { c \in Counters : \A v \in DOMAIN c.set_variables : c.set_variables[v] = user }

\* the request values of one user
ValuesOf(user) ==
  { vs \in ValuesSet : "user" \in DOMAIN vs => vs["user"] = user }

vars == << limits, counters, qualified_counters, limit_windows, now, last, run, procs, peak,
          data, concurrent_counter, redis, spans, consumed >>

\* the calls on the registry
Admin(lims) ==
  \/ \E limit \in lims : add_limit(limit)
  \/ \E limit \in lims : delete_limit(limit)
  \/ \E namespace \in Namespaces : delete_limits(namespace)
  \/ clear

\* the decisions
Decide(cs) ==
  \E batch \in Batches(cs \cap registered_counters), delta \in 1..MaxDelta,
     load_counters \in BOOLEAN :
    CheckAndUpdate(batch, delta, load_counters)

\* the calls that read
Read(cs, vss) ==
  \/ \E counter \in cs, delta \in 0..MaxDelta : IsWithinLimits(counter, delta)
  \/ \E namespace \in Namespaces, values \in vss, delta \in 1..MaxDelta :
       IsRateLimited(namespace, values, delta)
  \/ \E namespace \in Namespaces : GetCounters(namespace)

\* the unchecked increments
Report(cs) ==
  \E counter \in cs \cap registered_counters, delta \in 1..MaxDelta :
    UpdateCounter(counter, delta)

(***************************************************************************)
(* Spec: every call of the store and the registry, one at a time, on a     *)
(* simple and a qualified limit.                                           *)
(***************************************************************************)
Next ==
  \/ Tick
  \/ Admin({L1, LQ})
  \/ Decide(CountersOf("a"))
  \/ Report(CountersOf("a"))
  \/ Read(CountersOf("a"), ValuesOf("a"))

Spec == Init /\ [][Next]_vars

(***************************************************************************)
(* SpecChecked: as Spec, without update_counter: the counters change by    *)
(* check_and_update alone.                                                 *)
(***************************************************************************)
NextChecked ==
  \/ Tick
  \/ Admin({L1, LQ})
  \/ Decide(CountersOf("a"))
  \/ Read(CountersOf("a"), ValuesOf("a"))

SpecChecked == Init /\ [][NextChecked]_vars

(***************************************************************************)
(* SpecDecide: limits are registered and decisions are made, on two simple *)
(* limits and a qualified one.                                             *)
(***************************************************************************)
NextDecide ==
  \/ Tick
  \/ \E limit \in Limits : add_limit(limit)
  \/ Decide(CountersOf("a"))

SpecDecide == Init /\ [][NextDecide]_vars

(***************************************************************************)
(* SpecRun: decisions on the counter of one simple limit, one at a time.   *)
(* run counts the successive calls with one delta that began with the      *)
(* counter at 0 and fall inside the window that began with the first.      *)
(***************************************************************************)
\* check_and_update on the counter of a registered simple limit
RunCall(limit, delta, load_counters) ==
  LET counter == NewCounter(limit, EmptyMap)
      r == check_and_update(<< counter >>, delta, load_counters)
      continues == /\ run # None
                   /\ run[1].limit = limit
                   /\ run[1].delta = delta
                   /\ now < run[1].start + limit.seconds
  IN  /\ limit \in registered
      /\ continues => run[1].calls < MaxCalls
      /\ counters' = r.counters
      /\ qualified_counters' = r.qualified_counters
      /\ last' = [ op |-> "check_and_update", batch |-> << counter >>,
                   delta |-> delta, load_counters |-> load_counters,
                   auth |-> r.auth, restarted |-> restarted(<< counter >>) ]
      /\ run' = IF continues
                  THEN Some([ run[1] EXCEPT !.calls = @ + 1 ])
                ELSE IF stored_value(counter) = 0
                  THEN Some([ limit |-> limit, delta |-> delta, start |-> now,
                              calls |-> 1 ])
                ELSE None
      /\ UNCHANGED << limits, limit_windows, now, procs, peak, other_stores >>

NextRun ==
  \/ Tick
  \/ \E limit \in {L1, L2} : add_limit(limit)
  \/ \E limit \in {L1, L2}, delta \in 1..MaxDelta, load_counters \in BOOLEAN :
       RunCall(limit, delta, load_counters)

SpecRun == Init /\ [][NextRun]_vars

(***************************************************************************)
(* SpecUsers: decisions and unchecked increments for two users of one      *)
(* qualified limit, in a cache that has room for both.                     *)
(***************************************************************************)
\* the counters of the qualified limit, one per user
UserCounters == { c \in Counters : c.limit = LQ }

NextUsers ==
  \/ Tick
  \/ add_limit(LQ)
  \/ Decide(UserCounters)
  \/ Report(UserCounters)

SpecUsers == Init /\ [][NextUsers]_vars

(***************************************************************************)
(* SpecRedis: AsyncRedisStorage::check_and_update, one call at a time,     *)
(* with a backend that may fail at any of its requests.  A key of the      *)
(* database is the counter it stands for; a value that has expired is a    *)
(* key that is gone.                                                       *)
(***************************************************************************)
\* GET / MGET / VALUES_AND_TTLS: the value of the counter's key, if any
redis_get(db, counter) ==
  IF counter \in DOMAIN db /\ now < db[counter].expiry
    THEN Some(db[counter].value) ELSE None

\* SCRIPT_UPDATE_COUNTER: the key is incremented by delta, and expires
\* after the limit's seconds when the script created it
script_update_counter(db, counter, delta) ==
  IF redis_get(db, counter) = None
    THEN Put(db, counter, [ value |-> delta, expiry |-> now + counter.limit.seconds ])
    ELSE [ db EXCEPT ![counter].value = @ + delta ]

\* the first counter of the batch whose remaining, max - (value + delta),
\* is below 0: the for loop of the branch without load_counters, and
\* is_limited in the branch with it
redis_limited(batch, delta) ==
  LET over == { i \in 1..Len(batch) :
                  LET val == redis_get(redis, batch[i])
                  IN  batch[i].limit.max_value
                        - ((IF val = None THEN 0 ELSE val[1]) + delta) < 0 }
  IN  IF over = {} THEN None
      ELSE Some(Limited(batch[CHOOSE i \in over : \A j \in over : i <= j].limit.name))

\* the loop of updates, from counter i on; it ends at the request that
\* fails, if one does
RECURSIVE redis_updates(_, _, _, _, _)
redis_updates(batch, i, db, delta, failing) ==
  IF i > Len(batch) THEN [ err |-> FALSE, db |-> db ]
  ELSE IF failing = i THEN [ err |-> TRUE, db |-> db ]
  ELSE redis_updates(batch, i + 1, script_update_counter(db, batch[i], delta),
                     delta, failing)

\* AsyncRedisStorage::check_and_update.  failing: the request that fails
\* (0: the read of the values, i: the update of counter i), or none when
\* it is beyond the batch
RedisCheckAndUpdate(batch, delta, load_counters, failing) ==
  LET limited == redis_limited(batch, delta)
      done == redis_updates(batch, 1, redis, delta, failing)
  IN  /\ (failing # 0 /\ limited # None) => failing = Len(batch) + 1
      /\ redis' = IF failing = 0 \/ limited # None THEN redis ELSE done.db
      /\ last' = [ op |-> "redis_check_and_update", batch |-> batch,
                   delta |-> delta, load_counters |-> load_counters,
                   failing |-> failing,
                   result |-> IF failing = 0 THEN "Err"
                              ELSE IF limited # None THEN "Limited"
                              ELSE IF done.err THEN "Err"
                              ELSE "Ok" ]
      /\ UNCHANGED << storeVars, now, run, procs, peak, data, concurrent_counter, spans, consumed >>

NextRedis ==
  \/ Tick
  \/ \E batch \in Batches(CountersOf("a")), delta \in 1..MaxDelta,
        load_counters \in BOOLEAN :
       \E failing \in 0..(Len(batch) + 1) :
         RedisCheckAndUpdate(batch, delta, load_counters, failing)

SpecRedis == Init /\ [][NextRedis]_vars

(***************************************************************************)
(* SpecNamespaces: threads call ConcurrentStorage::add_namespace and       *)
(* add_limit at the same time, each thread once.  add_namespace is two     *)
(* steps: the test under the read lock, then the test and the insert       *)
(* under the write lock.  procs[p] keeps the call of thread p and, once    *)
(* it is done, what it returned.                                           *)
(***************************************************************************)
Names == {"foo", "bar"}

\* From<String> for ConcurrentNamespace
ConcurrentNamespace(name) == [ name |-> name ]

\* ConcurrentStorage::get_namespaces
ConcurrentStorage_get_namespaces == { data[k].name : k \in DOMAIN data }

\* the block under the write lock without its contains_key test
insert_unchecked(name) ==
  [ result |-> TRUE, data |-> Put(data, name, ConcurrentNamespace(name)) ]

\* add_namespace, the block under the write lock: what the call returns
\* and the map after
insert_if_absent(name) ==
  IF name \notin DOMAIN data
    THEN [ result |-> TRUE, data |-> Put(data, name, ConcurrentNamespace(name)) ]
    ELSE [ result |-> FALSE, data |-> data ]

\* add_namespace, the block under the read lock: fast_exists
AddNamespaceRead(p, name) ==
  LET fast_exists == name \in DOMAIN data
  IN  /\ procs[p].pc = "idle"
      /\ procs' = [ procs EXCEPT ![p] =
                      [ pc |-> IF fast_exists THEN "done" ELSE "write",
                        op |-> "add_namespace", name |-> name,
                        fast_exists |-> fast_exists,
                        result |-> IF fast_exists THEN Some(FALSE) ELSE None ] ]
      /\ last' = [ op |-> "add_namespace_read", proc |-> p ]
      /\ UNCHANGED << storeVars, now, run, peak, other_stores >>

\* add_namespace, the block under the write lock
AddNamespaceWrite(p) ==
  LET r == insert_if_absent(procs[p].name)
  IN  /\ procs[p].pc = "write"
      /\ data' = r.data
      /\ procs' = [ procs EXCEPT ![p].pc = "done", ![p].result = Some(r.result) ]
      /\ last' = [ op |-> "add_namespace_write", proc |-> p,
                   present |-> procs[p].name \in DOMAIN data ]
      /\ UNCHANGED << storeVars, now, run, peak, concurrent_counter, redis, spans, consumed >>

\* ConcurrentStorage::add_limit for a limit of the namespace, under the
\* write lock: a vacant entry gets the namespace
ConcurrentAddLimit(p, name) ==
  /\ procs[p].pc = "idle"
  /\ data' = IF name \in DOMAIN data THEN data
             ELSE Put(data, name, ConcurrentNamespace(name))
  /\ procs' = [ procs EXCEPT ![p] =
                  [ pc |-> "done", op |-> "add_limit", name |-> name,
                    fast_exists |-> FALSE, result |-> None ] ]
  /\ last' = [ op |-> "concurrent_add_limit", proc |-> p ]
  /\ UNCHANGED << storeVars, now, run, peak, concurrent_counter, redis, spans, consumed >>

NextNamespaces ==
  \/ \E p \in Procs, name \in Names : AddNamespaceRead(p, name)
  \/ \E p \in Procs : AddNamespaceWrite(p)
  \/ \E p \in Procs, name \in Names : ConcurrentAddLimit(p, name)

SpecNamespaces == Init /\ [][NextNamespaces]_vars

(***************************************************************************)
(* SpecReports: reports (update_counters with delta 1) and checks          *)
(* (is_rate_limited) for one request.  run counts the successive reports   *)
(* with the same values that began with every counter they reach at 0 and  *)
(* fall inside the windows that began with the first.                      *)
(***************************************************************************)
\* the limits of the namespace that apply to the values
applying(namespace, values) ==
  { l \in get_limits(namespace) : applies(l, values) }

\* RateLimiter::update_counters with delta 1
ReportRun(namespace, values) ==
  \E cs \in Orders(counters_that_apply(namespace, values)) :
    LET st == update_each(cs, 1,
                [ panic |-> FALSE, counters |-> counters,
                  qualified_counters |-> qualified_counters ],
                1)
        continues == /\ run # None
                     /\ run[1].namespace = namespace
                     /\ run[1].values = values
                     /\ \A l \in applying(namespace, values) :
                          now < run[1].start + l.seconds
    IN  /\ cs # << >>
        /\ \A c \in InBatch(cs) : stored_value(c) + 1 <= MaxValue
        /\ continues => run[1].calls < MaxCalls
        /\ counters' = st.counters
        /\ qualified_counters' = st.qualified_counters
        /\ last' = [ op |-> "update_counters", namespace |-> namespace,
                     values |-> values, delta |-> 1, panic |-> st.panic ]
        /\ run' = IF continues
                    THEN Some([ run[1] EXCEPT !.calls = @ + 1 ])
                  ELSE IF \A c \in InBatch(cs) : stored_value(c) = 0
                    THEN Some([ namespace |-> namespace, values |-> values,
                                start |-> now, calls |-> 1 ])
                  ELSE None
        /\ UNCHANGED << limits, limit_windows, now, procs, peak, other_stores >>

\* Storage::add_limit, which ends the run
AddLimitRun(limit) ==
  LET st == add_counter(limit)
      ns == limit.namespace
  IN  /\ counters' = st.counters
      /\ limit_windows' = st.limit_windows
      /\ limits' = Put(limits, ns, insert(get_limits(ns), limit))
      /\ last' = [ op |-> "add_limit", limit |-> limit,
                   result |-> ~(\E l \in get_limits(ns) : LimitEq(l, limit)) ]
      /\ run' = None
      /\ UNCHANGED << qualified_counters, now, procs, peak, other_stores >>

NextReports ==
  \/ Tick
  \/ \E limit \in Limits : AddLimitRun(limit)
  \/ \E namespace \in Namespaces, values \in ValuesOf("a") :
       \/ ReportRun(namespace, values)
       \/ IsRateLimited(namespace, values, 1)

SpecReports == Init /\ [][NextReports]_vars

(***************************************************************************)
(* SpecRegistry: the calls on the registry with two limits that are equal  *)
(* and differ in max_value and name, and a limit of a second namespace,    *)
(* between decisions.                                                      *)
(***************************************************************************)
RegistryLimits == {L1, L1b, LQ, LB}

NextRegistry ==
  \/ Tick
  \/ Admin({L1, L1b, LQ})
  \/ add_limit(LB)
  \/ delete_limit(LB)
  \/ delete_limits(LB.namespace)
  \/ \E limit \in RegistryLimits : update_limit(limit)
  \/ Decide(CountersOf("a"))

SpecRegistry == Init /\ [][NextRegistry]_vars

(***************************************************************************)
(* SpecLimiter: the calls of RateLimiter that take a namespace and the     *)
(* values of a request, on a limit with a condition and a limit with a     *)
(* variable.                                                               *)
(***************************************************************************)
NextLimiter ==
  \/ Tick
  \/ \E limit \in {L1, LQ} : add_limit(limit)
  \/ \E namespace \in Namespaces, values \in ValuesOf("a"), delta \in 1..MaxDelta :
       \/ IsRateLimited(namespace, values, delta)
       \/ UpdateCounters(namespace, values, delta)
       \/ \E load_counters \in BOOLEAN :
            CheckRateLimitedAndUpdate(namespace, values, delta, load_counters)

SpecLimiter == Init /\ [][NextLimiter]_vars

(***************************************************************************)
(* SpecWindows: limits that carry an id.  The limits of one id share one   *)
(* key (Identity(id)) whatever their window, so the key's CounterValueSet  *)
(* and its window list hold one slot per window registered.                *)
(***************************************************************************)
\* a qualified limit with id "q": 2 per window seconds and per user
WQ(window) == [ MkLimit("A", 2, window, {}, {"user"}, None) EXCEPT !.id = Some("q") ]
\* a simple limit with id "s": 2 per window seconds
WS(window) == [ MkLimit("A", 2, window, {}, {}, None) EXCEPT !.id = Some("s") ]

WindowLimits == { WQ(w) : w \in 1..MaxWindow } \cup { WS(w) : w \in 1..MaxWindow }

\* the counters of these limits, the qualified ones for user "a"
WindowCounters ==
  { NewCounter(l, [ v \in {"user"} |-> "a" ]) : l \in WindowLimits }

\* a decision for one hit on one counter of a registered limit of lims
DecideWindow(lims) ==
  \E counter \in { c \in WindowCounters : c.limit \in registered \cap lims } :
    CheckAndUpdate(<< counter >>, 1, FALSE)

NextWindows(lims) ==
  \/ Tick
  \/ \E limit \in lims : add_limit(limit)
  \/ DecideWindow(lims)

\* the simple and the qualified limits that carry an id
SpecWindows == Init /\ [][NextWindows(WindowLimits)]_vars

\* the simple limits that carry an id
SimpleWindowLimits == { l \in WindowLimits : l.variables = {} }
SpecSimpleWindows == Init /\ [][NextWindows(SimpleWindowLimits)]_vars

\* the simple limits that carry an id, registered, used and deleted
NextDeleteWindows ==
  \/ NextWindows(SimpleWindowLimits)
  \/ \E limit \in SimpleWindowLimits : delete_limit(limit)

SpecDeleteWindows == Init /\ [][NextDeleteWindows]_vars

(***************************************************************************)
(* SpecConc: threads run check_and_update on the counter of the simple     *)
(* limit L1 at the same time.  A decision holds the read lock of the       *)
(* counters map from its start to its end; its steps are the snapshot of   *)
(* now, the read of the dry run, and the atomic operations of the update   *)
(* (ConcurrentCounter::next_at: the load of the expiry, the                *)
(* compare-exchange, the store or the fetch_add of the value).             *)
(***************************************************************************)
C1 == NewCounter(L1, EmptyMap)
K1 == CounterValueSetKey(L1)

\* the decisions that passed the dry run and have not finished their update
Committing(ps) == { p \in Procs : ps[p].pc \in {"load", "cas", "store", "add"} }

Max(a, b) == IF a >= b THEN a ELSE b

\* check_and_update starts: the read lock, and the snapshot of now
Begin(p, delta) ==
  /\ procs[p].pc = "idle"
  /\ K1 \in DOMAIN counters
  /\ procs' = [ procs EXCEPT ![p] = [ pc |-> "check", at |-> now,
                                     delta |-> delta, expiry |-> 0 ] ]
  /\ last' = [ op |-> "begin", proc |-> p ]
  /\ UNCHANGED << storeVars, now, run, peak, other_stores >>

\* the dry run: the value is read, and the call returns Limited or goes on
\* to its update
Check(p) ==
  /\ procs[p].pc = "check"
  /\ LET value == CounterValueSet_value(counters[K1], L1.seconds, now)
         within == counter_is_within_limits(C1, Some(value), procs[p].delta)
     IN  /\ procs' = [ procs EXCEPT ![p] =
                         IF within THEN [ @ EXCEPT !.pc = "load" ] ELSE Idle ]
         /\ last' = [ op |-> "check", proc |-> p,
                      auth |-> IF within THEN None
                               ELSE Some(Limited(L1.name)) ]
  /\ peak' = Max(peak, Cardinality(Committing(procs')))
  /\ UNCHANGED << storeVars, now, run, other_stores >>

\* next_at: let mut expiry = self.expires_at.load(Acquire); if at >= expiry
LoadExpiry(p) ==
  /\ procs[p].pc = "load"
  /\ LET expiry == counters[K1][1].expiry
     IN  procs' = [ procs EXCEPT ![p].expiry = expiry,
                                 ![p].pc = IF procs[p].at >= expiry THEN "cas"
                                           ELSE "add" ]
  /\ last' = [ op |-> "load", proc |-> p ]
  /\ UNCHANGED << storeVars, now, run, peak, other_stores >>

\* next_at: self.expires_at.compare_exchange(expiry, at + self.duration, ..)
CompareExchange(p) ==
  /\ procs[p].pc = "cas"
  /\ IF counters[K1][1].expiry = procs[p].expiry
       THEN /\ counters' = [ counters EXCEPT ![K1][1].expiry =
                               procs[p].at + L1.seconds ]
            /\ procs' = [ procs EXCEPT ![p].pc = "store" ]
       ELSE /\ counters' = counters
            /\ procs' = [ procs EXCEPT ![p].pc = "add" ]
  /\ last' = [ op |-> "cas", proc |-> p ]
  /\ UNCHANGED << limits, qualified_counters, limit_windows, now, run, peak, other_stores >>

\* next_at: self.value.store(delta, Release), and the call returns Ok
StoreValue(p) ==
  /\ procs[p].pc = "store"
  /\ counters' = [ counters EXCEPT ![K1][1].value = procs[p].delta ]
  /\ procs' = [ procs EXCEPT ![p] = Idle ]
  /\ last' = [ op |-> "store", proc |-> p ]
  /\ UNCHANGED << limits, qualified_counters, limit_windows, now, run, peak, other_stores >>

\* next_at: self.value.fetch_add(delta, Relaxed), and the call returns Ok
FetchAdd(p) ==
  /\ procs[p].pc = "add"
  /\ counters' = [ counters EXCEPT ![K1][1].value = @ + procs[p].delta ]
  /\ procs' = [ procs EXCEPT ![p] = Idle ]
  /\ last' = [ op |-> "add", proc |-> p ]
  /\ UNCHANGED << limits, qualified_counters, limit_windows, now, run, peak, other_stores >>

NextConc ==
  \/ Tick
  \/ (\A p \in Procs : procs[p].pc = "idle") /\ add_limit(L1)
  \/ \E p \in Procs, delta \in 1..MaxDelta : Begin(p, delta)
  \/ \E p \in Procs : Check(p)
  \/ \E p \in Procs : LoadExpiry(p)
  \/ \E p \in Procs : CompareExchange(p)
  \/ \E p \in Procs : StoreValue(p)
  \/ \E p \in Procs : FetchAdd(p)

SpecConc == Init /\ [][NextConc]_vars

(***************************************************************************)
(* SpecCounter: threads call ConcurrentCounter::next_at on one counter at  *)
(* the same time.  A call is its caller's reading of the clock (at) and    *)
(* then the atomic operations of next_at, one step each.  run sums up the  *)
(* calls made so far: their number, the sum of their deltas, the least and *)
(* the greatest at.                                                         *)
(***************************************************************************)
NoCalls == [ calls |-> 0, sum |-> 0, lo |-> MaxTime, hi |-> 0 ]

calls_made == IF run = None THEN NoCalls ELSE run[1]

Min(a, b) == IF a <= b THEN a ELSE b

\* the caller takes the time and calls next_at(at, delta)
NextAtCall(p, delta) ==
  /\ procs[p].pc = "idle"
  /\ calls_made.calls < MaxCalls
  /\ procs' = [ procs EXCEPT ![p] = [ pc |-> "load", at |-> now,
                                     delta |-> delta, expiry |-> 0 ] ]
  /\ run' = Some([ calls |-> calls_made.calls + 1,
                   sum |-> calls_made.sum + delta,
                   lo |-> Min(calls_made.lo, now),
                   hi |-> Max(calls_made.hi, now) ])
  /\ last' = [ op |-> "next_at", proc |-> p ]
  /\ UNCHANGED << storeVars, now, peak, other_stores >>

\* let mut expiry = self.expires_at.load(Acquire); if at >= expiry
NextAtLoad(p) ==
  /\ procs[p].pc = "load"
  /\ LET expiry == concurrent_counter.expires_at
     IN  procs' = [ procs EXCEPT ![p].expiry = expiry,
                                 ![p].pc = IF procs[p].at >= expiry THEN "cas"
                                           ELSE "add" ]
  /\ last' = [ op |-> "load", proc |-> p ]
  /\ UNCHANGED << storeVars, now, run, peak, other_stores >>

\* self.expires_at.compare_exchange(expiry, at + self.duration, ..):
\* Ok(expiry) goes on to the store, Err(updated) => expiry = updated
NextAtCompareExchange(p) ==
  /\ procs[p].pc = "cas"
  /\ IF concurrent_counter.expires_at = procs[p].expiry
       THEN /\ concurrent_counter' =
                 [ concurrent_counter EXCEPT
                     !.expires_at = procs[p].at + concurrent_counter.duration ]
            /\ procs' = [ procs EXCEPT ![p].pc = "store" ]
       ELSE /\ concurrent_counter' = concurrent_counter
            /\ procs' = [ procs EXCEPT ![p].pc = "add",
                                       ![p].expiry = concurrent_counter.expires_at ]
  /\ last' = [ op |-> "cas", proc |-> p ]
  /\ UNCHANGED << storeVars, now, run, peak, data, redis, spans, consumed >>

\* self.value.store(delta, Release); return (delta, expiry)
NextAtStore(p) ==
  /\ procs[p].pc = "store"
  /\ concurrent_counter' = [ concurrent_counter EXCEPT !.value = procs[p].delta ]
  /\ procs' = [ procs EXCEPT ![p] = Idle ]
  /\ last' = [ op |-> "returned", proc |-> p,
               result |-> << procs[p].delta, procs[p].expiry >> ]
  /\ UNCHANGED << storeVars, now, run, peak, data, redis, spans, consumed >>

\* (self.value.fetch_add(delta, Relaxed) + delta, expiry)
NextAtFetchAdd(p) ==
  /\ procs[p].pc = "add"
  /\ concurrent_counter' =
       [ concurrent_counter EXCEPT !.value = @ + procs[p].delta ]
  /\ procs' = [ procs EXCEPT ![p] = Idle ]
  /\ last' = [ op |-> "returned", proc |-> p,
               result |-> << concurrent_counter.value + procs[p].delta,
                             procs[p].expiry >> ]
  /\ UNCHANGED << storeVars, now, run, peak, data, redis, spans, consumed >>

NextCounter ==
  \/ Tick
  \/ \E p \in Procs, delta \in 1..MaxDelta : NextAtCall(p, delta)
  \/ \E p \in Procs : NextAtLoad(p)
  \/ \E p \in Procs : NextAtCompareExchange(p)
  \/ \E p \in Procs : NextAtStore(p)
  \/ \E p \in Procs : NextAtFetchAdd(p)

SpecCounter == Init /\ [][NextCounter]_vars

(***************************************************************************)
(* SpecCold: threads run check_and_update on one qualified counter of LQ   *)
(* at the same time, starting with an empty cache.  A decision's steps are *)
(* the snapshot of now, get_with on the cache, the read of the dry run,    *)
(* and the atomic operations of the update of the slot (as in SpecConc).   *)
(* run sums up the decisions that passed the dry run: their number, the    *)
(* delta of the first, whether all had that delta, the least and the       *)
(* greatest now, and the number of value sets that get_with built.         *)
(***************************************************************************)
CQ == NewCounter(LQ, [ v \in {"user"} |-> "a" ])
KQ == QualifiedCounterValueSetKey(CQ)

NoDecisions ==
  [ calls |-> 0, ok |-> 0, delta |-> 0, uniform |-> TRUE,
    lo |-> MaxTime, hi |-> 0, built |-> 0 ]

decisions_made == IF run = None THEN NoDecisions ELSE run[1]

\* check_and_update starts: the read lock, and the snapshot of now
ColdBegin(p, delta) ==
  /\ procs[p].pc = "idle"
  /\ windows_known(LQ)
  /\ decisions_made.calls < MaxCalls
  /\ procs' = [ procs EXCEPT ![p] = [ pc |-> "get_with", at |-> now,
                                     delta |-> delta, expiry |-> 0 ] ]
  /\ run' = Some([ decisions_made EXCEPT !.calls = @ + 1 ])
  /\ last' = [ op |-> "begin", proc |-> p ]
  /\ UNCHANGED << storeVars, now, peak, other_stores >>

\* self.qualified_counters.get_with((&*counter).into(), || CounterValueSet::new(..))
ColdGetWith(p) ==
  /\ procs[p].pc = "get_with"
  /\ qualified_counters' =
       get_with(qualified_counters, KQ,
                CounterValueSet_new(limit_windows[CounterValueSetKey(LQ)]))
  /\ run' = IF KQ \in DOMAIN qualified_counters THEN run
            ELSE Some([ decisions_made EXCEPT !.built = @ + 1 ])
  /\ procs' = [ procs EXCEPT ![p].pc = "check" ]
  /\ last' = [ op |-> "get_with", proc |-> p ]
  /\ UNCHANGED << limits, counters, limit_windows, now, peak, other_stores >>

\* the dry run: process_counter(counter, value.value(counter.window()), delta)
ColdCheck(p) ==
  /\ procs[p].pc = "check"
  /\ LET value == CounterValueSet_value(qualified_counters[KQ], LQ.seconds, now)
         within == counter_is_within_limits(CQ, Some(value), procs[p].delta)
         made == decisions_made
     IN  /\ procs' = [ procs EXCEPT ![p] =
                         IF within THEN [ @ EXCEPT !.pc = "load" ] ELSE Idle ]
         /\ run' = IF ~within THEN run
                   ELSE Some([ made EXCEPT
                           !.ok = @ + 1,
                           !.delta = IF made.ok = 0 THEN procs[p].delta ELSE @,
                           !.uniform = @ /\ (made.ok = 0 \/ made.delta = procs[p].delta),
                           !.lo = Min(@, procs[p].at),
                           !.hi = Max(@, procs[p].at) ])
         /\ last' = [ op |-> "check", proc |-> p,
                      auth |-> IF within THEN None
                               ELSE Some(Limited(LQ.name)) ]
  /\ UNCHANGED << storeVars, now, peak, other_stores >>

\* the slot of the counter's window in its value set
cold_slot == expiring_value_of(qualified_counters[KQ], LQ.seconds)

\* the update of the slot: the load of the expiry; is the window over?
ColdLoadExpiry(p) ==
  /\ procs[p].pc = "load"
  /\ LET expiry == qualified_counters[KQ][cold_slot].expiry
     IN  procs' = [ procs EXCEPT ![p].expiry = expiry,
                                 ![p].pc = IF procs[p].at >= expiry THEN "cas"
                                           ELSE "add" ]
  /\ last' = [ op |-> "load", proc |-> p ]
  /\ UNCHANGED << storeVars, now, run, peak, other_stores >>

\* the update of the slot: the compare-exchange of the expiry
ColdCompareExchange(p) ==
  /\ procs[p].pc = "cas"
  /\ IF qualified_counters[KQ][cold_slot].expiry = procs[p].expiry
       THEN /\ qualified_counters' =
                 [ qualified_counters EXCEPT ![KQ][cold_slot].expiry =
                     procs[p].at + LQ.seconds ]
            /\ procs' = [ procs EXCEPT ![p].pc = "store" ]
       ELSE /\ qualified_counters' = qualified_counters
            /\ procs' = [ procs EXCEPT ![p].pc = "add" ]
  /\ last' = [ op |-> "cas", proc |-> p ]
  /\ UNCHANGED << limits, counters, limit_windows, now, run, peak, other_stores >>

\* the update of the slot: the store of delta, and the call returns Ok
ColdStoreValue(p) ==
  /\ procs[p].pc = "store"
  /\ qualified_counters' =
       [ qualified_counters EXCEPT ![KQ][cold_slot].value = procs[p].delta ]
  /\ procs' = [ procs EXCEPT ![p] = Idle ]
  /\ last' = [ op |-> "store", proc |-> p ]
  /\ UNCHANGED << limits, counters, limit_windows, now, run, peak, other_stores >>

\* the update of the slot: the fetch_add of delta, and the call returns Ok
ColdFetchAdd(p) ==
  /\ procs[p].pc = "add"
  /\ qualified_counters' =
       [ qualified_counters EXCEPT ![KQ][cold_slot].value = @ + procs[p].delta ]
  /\ procs' = [ procs EXCEPT ![p] = Idle ]
  /\ last' = [ op |-> "add", proc |-> p ]
  /\ UNCHANGED << limits, counters, limit_windows, now, run, peak, other_stores >>

NextCold ==
  \/ Tick
  \/ (\A p \in Procs : procs[p].pc = "idle") /\ add_limit(LQ)
  \/ \E p \in Procs, delta \in 1..MaxDelta : ColdBegin(p, delta)
  \/ \E p \in Procs : ColdGetWith(p)
  \/ \E p \in Procs : ColdCheck(p)
  \/ \E p \in Procs : ColdLoadExpiry(p)
  \/ \E p \in Procs : ColdCompareExchange(p)
  \/ \E p \in Procs : ColdStoreValue(p)
  \/ \E p \in Procs : ColdFetchAdd(p)

SpecCold == Init /\ [][NextCold]_vars

(***************************************************************************)
(* SpecLocks: threads call the operations of InMemoryStorage at the same   *)
(* time, and the model keeps which lock of the simple-counter map          *)
(* (self.counters: RwLock) each call holds.  A call is two steps: it takes *)
(* the lock its code takes (waiting while the lock is not free), and it    *)
(* does its work and lets the lock go.  procs[p] is the call of thread p:  *)
(* its operation, its counter or limit, and the lock it holds.             *)
(***************************************************************************)
DecisionOps == {"is_within_limits", "update_counter", "check_and_update"}
AdminOps == {"add_counter", "delete_counters", "clear"}

\* the lock of self.counters that an operation takes: "read" for
\* self.counters.read(), "write" for self.counters.write(), "none" when the
\* operation does not touch the map (target is a counter, or a limit for the
\* admin operations)
lock_taken(op, target) ==
  CASE op = "is_within_limits" ->
         IF is_qualified(target) THEN "none" ELSE "read"
    [] op = "update_counter" ->
         IF is_qualified(target) THEN "none" ELSE "write"
    [] op = "check_and_update" -> "read"
    [] op = "add_counter" ->
         IF target.variables = {} THEN "write" ELSE "none"
    [] op = "delete_counters" ->
         IF target.variables = {} THEN "write" ELSE "none"
    [] op = "clear" -> "write"

\* RwLock: a reader waits for the writer, a writer for every holder
lock_is_free(kind) ==
  CASE kind = "none" -> TRUE
    [] kind = "read" ->
         \A q \in Procs : ~(procs[q].pc = "locked" /\ procs[q].lock = "write")
    [] kind = "write" ->
         \A q \in Procs : ~(procs[q].pc = "locked" /\ procs[q].lock # "none")

ops_begun == IF run = None THEN 0 ELSE run[1].calls

\* the targets an operation is called with here: the counter of L1 or the
\* counter of LQ for user a, whose limit's windows are known to the store;
\* the limits L1 and LQ
LockTargets(op) ==
  IF op \in DecisionOps
    THEN { c \in {C1, CQ} :
             IF is_qualified(c) THEN windows_known(c.limit)
             ELSE CounterValueSetKey(c.limit) \in DOMAIN counters }
    ELSE {L1, LQ}

\* the call starts and takes its lock
TakeLock(p, op, target) ==
  /\ procs[p].pc = "idle"
  /\ ops_begun < MaxCalls
  /\ lock_is_free(lock_taken(op, target))
  /\ procs' = [ procs EXCEPT ![p] = [ pc |-> "locked", op |-> op,
                                     target |-> target,
                                     lock |-> lock_taken(op, target) ] ]
  /\ run' = Some([ calls |-> ops_begun + 1 ])
  /\ last' = [ op |-> "lock", proc |-> p ]
  /\ UNCHANGED << storeVars, now, peak, other_stores >>

\* the maps after the call of thread p has done its work (delta 1)
worked(p) ==
  LET op == procs[p].op
      target == procs[p].target
      st == [ counters |-> counters, qualified_counters |-> qualified_counters,
              limit_windows |-> limit_windows ]
  IN  CASE op = "is_within_limits" ->
             [ st EXCEPT !.qualified_counters = cache_after_reads(@, {target}) ]
        [] op = "update_counter" ->
             [ st EXCEPT !.counters = update_counter(target, 1).counters,
                         !.qualified_counters =
                            update_counter(target, 1).qualified_counters ]
        [] op = "check_and_update" ->
             [ st EXCEPT !.counters =
                            check_and_update(<< target >>, 1, FALSE).counters,
                         !.qualified_counters =
                            check_and_update(<< target >>, 1, FALSE).qualified_counters ]
        [] op = "add_counter" ->
             [ st EXCEPT !.counters = add_counter(target).counters,
                         !.limit_windows = add_counter(target).limit_windows ]
        [] op = "delete_counters" ->
             [ st EXCEPT !.counters =
                            delete_counters(st, {target}).counters,
                         !.qualified_counters =
                            delete_counters(st, {target}).qualified_counters ]
        [] op = "clear" ->
             [ st EXCEPT !.counters = clear_counters.counters,
                         !.qualified_counters = clear_counters.qualified_counters ]

\* the call does its work and returns, which drops its guard of the lock
ReturnUnlocking(p) ==
  /\ procs[p].pc = "locked"
  /\ counters' = worked(p).counters
  /\ qualified_counters' = worked(p).qualified_counters
  /\ limit_windows' = worked(p).limit_windows
  /\ procs' = [ procs EXCEPT ![p] = Idle ]
  /\ last' = [ op |-> procs[p].op, proc |-> p, lock |-> procs[p].lock ]
  /\ UNCHANGED << limits, now, run, peak, other_stores >>

NextLocks ==
  \/ Tick
  \/ \E p \in Procs, op \in DecisionOps \cup AdminOps :
       \E target \in LockTargets(op) : TakeLock(p, op, target)
  \/ \E p \in Procs : ReturnUnlocking(p)

SpecLocks == Init /\ [][NextLocks]_vars

(***************************************************************************)
(* SpecSteps: the operations of the registry (Storage) run at the same     *)
(* time as decisions, each in the steps its code takes on the registry and *)
(* on the counter store.  A thread that holds the write lock of the        *)
(* registry across steps (add_limit, delete_limits) keeps the others from  *)
(* reading or writing the registry meanwhile.  A decision is               *)
(* RateLimiter::check_rate_limited_and_update: it reads the limits that    *)
(* apply from the registry, then calls check_and_update.  run counts the   *)
(* calls begun.                                                            *)
(***************************************************************************)
StepLimits == {L1, LQ}

\* some thread is inside add_limit or delete_limits, holding
\* self.limits.write()
registry_locked ==
  \E q \in Procs : procs[q].pc \in {"insert", "delete_counters"}

\* add_limit: self.limits.write(); self.counters.add_counter(&limit)
AddLimitAddCounter(p, limit) ==
  /\ procs[p].pc = "idle"
  /\ ops_begun < MaxCalls
  /\ run' = Some([ calls |-> ops_begun + 1 ])
  /\ ~registry_locked
  /\ counters' = add_counter(limit).counters
  /\ limit_windows' = add_counter(limit).limit_windows
  /\ procs' = [ procs EXCEPT ![p] = [ pc |-> "insert", arg |-> limit ] ]
  /\ last' = [ op |-> "add_counter", proc |-> p ]
  /\ UNCHANGED << limits, qualified_counters, now, peak, other_stores >>

\* add_limit: limits.entry(namespace).or_default().insert(Arc::new(limit))
AddLimitInsert(p) ==
  /\ procs[p].pc = "insert"
  /\ LET limit == procs[p].arg
     IN  limits' = Put(limits, limit.namespace,
                       insert(get_limits(limit.namespace), limit))
  /\ procs' = [ procs EXCEPT ![p] = Idle ]
  /\ last' = [ op |-> "add_limit", proc |-> p ]
  /\ UNCHANGED << counters, qualified_counters, limit_windows, now, run, peak,
                  other_stores >>

\* update_limit, all of it under self.limits.write()
UpdateLimitLocked(new_limit) ==
  /\ ~registry_locked
  /\ update_limit(new_limit)

\* delete_limit: the Arc is looked up under self.limits.read(), and
\* self.counters.delete_counters(&limits) runs
DeleteLimitDeleteCounters(p, limit) ==
  /\ procs[p].pc = "idle"
  /\ ops_begun < MaxCalls
  /\ run' = Some([ calls |-> ops_begun + 1 ])
  /\ ~registry_locked
  /\ LET found == { l \in get_limits(limit.namespace) : LimitEq(l, limit) }
         arc == IF found = {} THEN limit ELSE CHOOSE l \in found : TRUE
         st == delete_counters([ counters |-> counters,
                                 qualified_counters |-> qualified_counters ], {arc})
     IN  /\ counters' = st.counters
         /\ qualified_counters' = st.qualified_counters
  /\ procs' = [ procs EXCEPT ![p] = [ pc |-> "remove", arg |-> limit ] ]
  /\ last' = [ op |-> "delete_counters", proc |-> p ]
  /\ UNCHANGED << limits, limit_windows, now, peak, other_stores >>

\* delete_limit: self.limits.write(), and the limit leaves the registry
DeleteLimitRemove(p) ==
  /\ procs[p].pc = "remove"
  /\ ~registry_locked
  /\ limits' = limits_without(procs[p].arg)
  /\ procs' = [ procs EXCEPT ![p] = Idle ]
  /\ last' = [ op |-> "delete_limit", proc |-> p ]
  /\ UNCHANGED << counters, qualified_counters, limit_windows, now, run, peak,
                  other_stores >>

\* delete_limits: self.limits.write().remove(namespace) finds the namespace
DeleteLimitsRemove(p, namespace) ==
  /\ procs[p].pc = "idle"
  /\ ops_begun < MaxCalls
  /\ run' = Some([ calls |-> ops_begun + 1 ])
  /\ ~registry_locked
  /\ namespace \in DOMAIN limits
  /\ limits' = Remove(limits, namespace)
  /\ procs' = [ procs EXCEPT ![p] = [ pc |-> "delete_counters",
                                     arg |-> limits[namespace] ] ]
  /\ last' = [ op |-> "remove", proc |-> p ]
  /\ UNCHANGED << counters, qualified_counters, limit_windows, now, peak,
                  other_stores >>

\* delete_limits: self.counters.delete_counters(&data), the guard still held
DeleteLimitsDeleteCounters(p) ==
  /\ procs[p].pc = "delete_counters"
  /\ LET st == delete_counters([ counters |-> counters,
                                 qualified_counters |-> qualified_counters ],
                               procs[p].arg)
     IN  /\ counters' = st.counters
         /\ qualified_counters' = st.qualified_counters
  /\ procs' = [ procs EXCEPT ![p] = Idle ]
  /\ last' = [ op |-> "delete_limits", proc |-> p ]
  /\ UNCHANGED << limits, limit_windows, now, run, peak, other_stores >>

\* clear: self.limits.write().unwrap().clear()
ClearLimits(p) ==
  /\ procs[p].pc = "idle"
  /\ ops_begun < MaxCalls
  /\ run' = Some([ calls |-> ops_begun + 1 ])
  /\ ~registry_locked
  /\ limits' = EmptyMap
  /\ procs' = [ procs EXCEPT ![p] = [ pc |-> "clear_counters", arg |-> None ] ]
  /\ last' = [ op |-> "clear_limits", proc |-> p ]
  /\ UNCHANGED << counters, qualified_counters, limit_windows, now, peak,
                  other_stores >>

\* clear: self.counters.clear()
ClearCounters(p) ==
  /\ procs[p].pc = "clear_counters"
  /\ counters' = clear_counters.counters
  /\ qualified_counters' = clear_counters.qualified_counters
  /\ procs' = [ procs EXCEPT ![p] = Idle ]
  /\ last' = [ op |-> "clear", proc |-> p ]
  /\ UNCHANGED << limits, limit_windows, now, run, peak, other_stores >>

\* a decision: counters_that_apply reads the registry
DecisionCounters(p, namespace, values) ==
  /\ procs[p].pc = "idle"
  /\ ops_begun < MaxCalls
  /\ run' = Some([ calls |-> ops_begun + 1 ])
  /\ ~registry_locked
  /\ counters_that_apply(namespace, values) # {}
  /\ \E batch \in Orders(counters_that_apply(namespace, values)) :
       procs' = [ procs EXCEPT ![p] = [ pc |-> "check_and_update",
                                       arg |-> batch ] ]
  /\ last' = [ op |-> "counters_that_apply", proc |-> p ]
  /\ UNCHANGED << storeVars, now, peak, other_stores >>

\* a decision: self.storage.check_and_update(&mut counters, delta, false)
DecisionCheckAndUpdate(p) ==
  /\ procs[p].pc = "check_and_update"
  /\ LET batch == procs[p].arg
         r == check_and_update(batch, 1, FALSE)
     IN  /\ counters' = r.counters
         /\ qualified_counters' = r.qualified_counters
         /\ last' = [ op |-> "check_and_update", proc |-> p, batch |-> batch,
                      auth |-> r.auth,
                      unregistered |-> { c \in InBatch(batch) :
                                           c.limit \notin registered } ]
  /\ procs' = [ procs EXCEPT ![p] = Idle ]
  /\ UNCHANGED << limits, limit_windows, now, run, peak, other_stores >>

NextSteps ==
  \/ Tick
  \/ \E p \in Procs, limit \in StepLimits : AddLimitAddCounter(p, limit)
  \/ \E p \in Procs : AddLimitInsert(p)
  \/ UpdateLimitLocked(L1b)
  \/ \E p \in Procs, limit \in StepLimits : DeleteLimitDeleteCounters(p, limit)
  \/ \E p \in Procs : DeleteLimitRemove(p)
  \/ \E p \in Procs, namespace \in Namespaces : DeleteLimitsRemove(p, namespace)
  \/ \E p \in Procs : DeleteLimitsDeleteCounters(p)
  \/ \E p \in Procs : ClearLimits(p)
  \/ \E p \in Procs : ClearCounters(p)
  \/ \E p \in Procs, namespace \in Namespaces, values \in ValuesOf("a") :
       DecisionCounters(p, namespace, values)
  \/ \E p \in Procs : DecisionCheckAndUpdate(p)

SpecSteps == Init /\ [][NextSteps]_vars

(***************************************************************************)
(* SpecOrder: the calls of Storage run at the same time, each in the steps *)
(* at which its code asks for a lock: self.limits (the registry),          *)
(* self.counters (the simple-counter map) and self.limit_windows.  A step  *)
(* waits until the RwLock grants the guard, then runs the code up to the   *)
(* next request or to the return, dropping the guards the code drops on    *)
(* the way.  procs[p] is the call of thread p: op, arg, pc (the request it *)
(* is at), rest (the limits its loop has yet to visit) and held (its       *)
(* guards).  run counts the calls begun and keeps the poisoned locks: a    *)
(* panic under a write guard poisons the lock, and every later             *)
(* lock().unwrap() on it panics.  The limits are L1 and LQ, the counters   *)
(* C1 and CQ, every delta is 1.                                            *)
(***************************************************************************)
StorageOps ==
  {"add_limit", "update_limit", "delete_limit", "delete_limits", "clear",
   "get_counters", "update_counter", "check_and_update"}

\* the arguments an operation is called with
StorageArgs(op) ==
  CASE op \in {"add_limit", "delete_limit"} -> StepLimits
    [] op = "update_limit" -> {L1b}
    [] op \in {"delete_limits", "get_counters"} -> {"A"}
    [] op = "clear" -> {None}
    [] op \in {"update_counter", "check_and_update"} -> {C1, CQ}

\* the first lock each operation asks for; "get_with" where it begins with
\* the cache
first_request(op, arg) ==
  CASE op \in {"add_limit", "update_limit", "delete_limits", "clear"} -> "limits.write"
    [] op \in {"delete_limit", "get_counters"} -> "limits.read"
    [] op = "update_counter" ->
         IF is_qualified(arg) THEN "get_with" ELSE "counters.write"
    [] op = "check_and_update" -> "counters.read"

guard(lock, mode) == [ lock |-> lock, mode |-> mode ]

guards_held(p) == IF procs[p].pc = "idle" THEN {} ELSE procs[p].held

poisoned == IF run = None THEN {} ELSE run[1].poisoned

\* the guards delete_limit still holds after its lookup: the read guard is a
\* temporary of the `let arc = match ... ;` statement and drops at its end
delete_limit_guards_kept_across == { guard("limits", "read") }
delete_limit_guards == {}

\* the guard a thread asks for at its step, x being the limit its loop
\* visits: None where the step takes no lock
request(p, x) ==
  LET c == procs[p]
  IN  CASE c.pc = "limits.read" -> Some(guard("limits", "read"))
        [] c.pc = "limits.write" -> Some(guard("limits", "write"))
        [] c.pc = "counters.read" -> Some(guard("counters", "read"))
        [] c.pc = "counters.write" -> Some(guard("counters", "write"))
        [] c.pc = "limit_windows.read" -> Some(guard("limit_windows", "read"))
        [] c.pc = "add_counter" ->
             IF c.arg.variables = {} THEN Some(guard("counters", "write"))
             ELSE Some(guard("limit_windows", "write"))
        [] c.pc = "delete_counters" ->
             IF x.variables = {} THEN Some(guard("counters", "write")) ELSE None
        [] OTHER -> None

\* what the step of a thread ranges over: the limits left to its loop
visits(p) ==
  IF procs[p].pc \in {"delete_counters", "counters.read"}
       /\ procs[p].op \in {"delete_limit", "delete_limits", "get_counters"}
    THEN procs[p].rest ELSE {None}

\* RwLock: read() is granted while no thread holds the write guard, write()
\* while no thread holds a guard
granted(req) ==
  \/ req = None
  \/ /\ req # None
     /\ \A q \in Procs : \A g \in guards_held(q) :
          g.lock = req[1].lock => (req[1].mode = "read" /\ g.mode = "read")

\* Cache::get_with runs one init closure per key at a time: a get_with of a
\* key waits while another thread is inside the closure for it
init_running(p) ==
  \E q \in Procs \ {p} :
    /\ procs[q].pc = "limit_windows.read"
    /\ QualifiedCounterValueSetKey(procs[q].arg) =
         QualifiedCounterValueSetKey(procs[p].arg)

\* a thread waits at its step for the guard it asks for, and at get_with for
\* the closure that runs
waits(p, x) ==
  \/ ~granted(request(p, x))
  \/ procs[p].pc = "get_with" /\ init_running(p)

\* lock().unwrap() on a poisoned lock panics
hits_poison(req) == req # None /\ req[1].lock \in poisoned

\* a call begins, on the first thread that is free (the threads are alike)
Call(p, op, arg) ==
  /\ procs[p].pc = "idle"
  /\ \A q \in Procs : q < p => procs[q].pc # "idle"
  /\ ops_begun < MaxCalls
  /\ procs' = [ procs EXCEPT ![p] = [ pc |-> first_request(op, arg), op |-> op,
                                     arg |-> arg, rest |-> {}, held |-> {} ] ]
  /\ run' = Some([ calls |-> ops_begun + 1, poisoned |-> poisoned ])
  /\ last' = [ op |-> "call" ]
  /\ UNCHANGED << storeVars, now, peak, other_stores >>

\* the call of thread p returns
Returns(p) ==
  /\ procs' = [ procs EXCEPT ![p] = Idle ]
  /\ last' = [ op |-> procs[p].op, outcome |-> "returned" ]
  /\ UNCHANGED run

\* the call of thread p goes on to its next request with these guards
GoesOn(p, pc, rest, held) ==
  /\ procs' = [ procs EXCEPT ![p] = [ @ EXCEPT !.pc = pc, !.rest = rest,
                                              !.held = held ] ]
  /\ last' = [ op |-> "step" ]
  /\ UNCHANGED run

\* the call of thread p panics with these guards in hand: unwinding drops
\* them, and poisons the locks held for writing
Panics(p, held) ==
  /\ procs' = [ procs EXCEPT ![p] = Idle ]
  /\ run' = Some([ calls |-> ops_begun,
                   poisoned |-> poisoned \cup
                                  { g.lock : g \in { h \in held : h.mode = "write" } } ])
  /\ last' = [ op |-> procs[p].op, outcome |-> "panic" ]

\* add_limit: self.limits.write().unwrap()
AddLimitWrite(p) ==
  /\ procs[p].pc = "limits.write" /\ procs[p].op = "add_limit"
  /\ ~waits(p, None)
  /\ IF hits_poison(request(p, None))
       THEN Panics(p, {})
       ELSE GoesOn(p, "add_counter", {}, { guard("limits", "write") })
  /\ UNCHANGED << storeVars, now, peak, other_stores >>

\* add_limit: self.counters.add_counter(&limit).unwrap(), which takes the
\* write lock of the map or of the window index, and the insert
AddLimitCounter(p) ==
  /\ procs[p].pc = "add_counter" /\ procs[p].op = "add_limit"
  /\ ~waits(p, None)
  /\ LET limit == procs[p].arg
     IN  IF hits_poison(request(p, None))
           THEN /\ Panics(p, procs[p].held)
                /\ UNCHANGED storeVars
           ELSE /\ counters' = add_counter(limit).counters
                /\ limit_windows' = add_counter(limit).limit_windows
                /\ limits' = Put(limits, limit.namespace,
                                 insert(get_limits(limit.namespace), limit))
                /\ Returns(p)
                /\ UNCHANGED qualified_counters
  /\ UNCHANGED << now, peak, other_stores >>

\* update_limit, all of it under self.limits.write()
UpdateLimitWrite(p) ==
  /\ procs[p].pc = "limits.write" /\ procs[p].op = "update_limit"
  /\ ~waits(p, None)
  /\ IF hits_poison(request(p, None))
       THEN /\ Panics(p, {})
            /\ UNCHANGED limits
       ELSE /\ limits' = limits_updated(procs[p].arg).limits
            /\ Returns(p)
  /\ UNCHANGED << counters, qualified_counters, limit_windows, now, peak, other_stores >>

\* delete_limit: the Arc is looked up under self.limits.read()
DeleteLimitRead(p) ==
  /\ procs[p].pc = "limits.read" /\ procs[p].op = "delete_limit"
  /\ ~waits(p, None)
  /\ LET limit == procs[p].arg
         found == { l \in get_limits(limit.namespace) : LimitEq(l, limit) }
         arc == IF found = {} THEN limit ELSE CHOOSE l \in found : TRUE
     IN  IF hits_poison(request(p, None))
           THEN Panics(p, {})
           ELSE GoesOn(p, "delete_counters", {arc}, delete_limit_guards)
  /\ UNCHANGED << storeVars, now, peak, other_stores >>

\* delete_limit: self.counters.delete_counters(&limits)
DeleteLimitCounters(p) ==
  /\ procs[p].pc = "delete_counters" /\ procs[p].op = "delete_limit"
  /\ \E arc \in visits(p) :
       /\ ~waits(p, arc)
       /\ IF hits_poison(request(p, arc))
            THEN /\ Panics(p, procs[p].held)
                 /\ UNCHANGED << counters, qualified_counters >>
            ELSE LET st == delete_counters_of_limit(
                             [ counters |-> counters,
                               qualified_counters |-> qualified_counters ], arc)
                 IN  /\ counters' = st.counters
                     /\ qualified_counters' = st.qualified_counters
                     /\ GoesOn(p, "limits.write", {}, procs[p].held)
  /\ UNCHANGED << limits, limit_windows, now, peak, other_stores >>

\* delete_limit: self.limits.write(), and the limit leaves the registry
DeleteLimitWrite(p) ==
  /\ procs[p].pc = "limits.write" /\ procs[p].op = "delete_limit"
  /\ ~waits(p, None)
  /\ IF hits_poison(request(p, None))
       THEN /\ Panics(p, procs[p].held)
            /\ UNCHANGED limits
       ELSE /\ limits' = limits_without(procs[p].arg)
            /\ Returns(p)
  /\ UNCHANGED << counters, qualified_counters, limit_windows, now, peak, other_stores >>

\* delete_limits: self.limits.write().unwrap().remove(namespace); the guard
\* lives as long as the `if let` does
DeleteLimitsWrite(p) ==
  /\ procs[p].pc = "limits.write" /\ procs[p].op = "delete_limits"
  /\ ~waits(p, None)
  /\ LET namespace == procs[p].arg
     IN  IF hits_poison(request(p, None))
           THEN /\ Panics(p, {})
                /\ UNCHANGED limits
         ELSE IF namespace \notin DOMAIN limits
           THEN /\ Returns(p)
                /\ UNCHANGED limits
         ELSE /\ limits' = Remove(limits, namespace)
              /\ GoesOn(p, "delete_counters", limits[namespace],
                        { guard("limits", "write") })
  /\ UNCHANGED << counters, qualified_counters, limit_windows, now, peak, other_stores >>

\* delete_limits: self.counters.delete_counters(&data), limit by limit
DeleteLimitsCounters(p) ==
  /\ procs[p].pc = "delete_counters" /\ procs[p].op = "delete_limits"
  /\ \E limit \in visits(p) :
       /\ ~waits(p, limit)
       /\ IF hits_poison(request(p, limit))
            THEN /\ Panics(p, procs[p].held)
                 /\ UNCHANGED << counters, qualified_counters >>
            ELSE LET st == delete_counters_of_limit(
                             [ counters |-> counters,
                               qualified_counters |-> qualified_counters ], limit)
                 IN  /\ counters' = st.counters
                     /\ qualified_counters' = st.qualified_counters
                     /\ IF procs[p].rest = {limit}
                          THEN Returns(p)
                          ELSE GoesOn(p, "delete_counters",
                                      procs[p].rest \ {limit}, procs[p].held)
  /\ UNCHANGED << limits, limit_windows, now, peak, other_stores >>

\* clear: self.limits.write().unwrap().clear()
ClearWrite(p) ==
  /\ procs[p].pc = "limits.write" /\ procs[p].op = "clear"
  /\ ~waits(p, None)
  /\ IF hits_poison(request(p, None))
       THEN /\ Panics(p, {})
            /\ UNCHANGED limits
       ELSE /\ limits' = EmptyMap
            /\ GoesOn(p, "counters.write", {}, {})
  /\ UNCHANGED << counters, qualified_counters, limit_windows, now, peak, other_stores >>

\* clear: self.counters.clear()
ClearCountersWrite(p) ==
  /\ procs[p].pc = "counters.write" /\ procs[p].op = "clear"
  /\ ~waits(p, None)
  /\ IF hits_poison(request(p, None))
       THEN /\ Panics(p, {})
            /\ UNCHANGED << counters, qualified_counters >>
       ELSE /\ counters' = clear_counters.counters
            /\ qualified_counters' = clear_counters.qualified_counters
            /\ Returns(p)
  /\ UNCHANGED << limits, limit_windows, now, peak, other_stores >>

\* get_counters ends: the loop over the cache takes no lock
GetCountersReturns(p, lims) ==
  /\ procs' = [ procs EXCEPT ![p] = Idle ]
  /\ last' = [ op |-> "get_counters",
               outcome |-> IF get_counters_panics(lims) THEN "panic" ELSE "returned" ]
  /\ UNCHANGED run

\* get_counters: self.limits.read().unwrap().get(namespace); the guard lives
\* as long as the match does
GetCountersRead(p) ==
  /\ procs[p].pc = "limits.read" /\ procs[p].op = "get_counters"
  /\ ~waits(p, None)
  /\ LET namespace == procs[p].arg
         simple == { l \in get_limits(namespace) : l.variables = {} }
     IN  IF hits_poison(request(p, None))
           THEN Panics(p, {})
         ELSE IF simple = {}
           THEN GetCountersReturns(p, get_limits(namespace))
         ELSE GoesOn(p, "counters.read", simple, { guard("limits", "read") })
  /\ UNCHANGED << storeVars, now, peak, other_stores >>

\* get_counters: self.counters.read().unwrap().get(..) for a simple limit
GetCountersCounters(p) ==
  /\ procs[p].pc = "counters.read" /\ procs[p].op = "get_counters"
  /\ \E limit \in visits(p) :
       /\ ~waits(p, limit)
       /\ IF hits_poison(request(p, limit))
            THEN Panics(p, procs[p].held)
          ELSE IF procs[p].rest = {limit}
            THEN GetCountersReturns(p, get_limits(procs[p].arg))
          ELSE GoesOn(p, "counters.read", procs[p].rest \ {limit}, procs[p].held)
  /\ UNCHANGED << storeVars, now, peak, other_stores >>

\* update_counter of a simple counter, under self.counters.write()
UpdateCounterWrite(p) ==
  /\ procs[p].pc = "counters.write" /\ procs[p].op = "update_counter"
  /\ ~waits(p, None)
  /\ LET r == update_counter(procs[p].arg, 1)
     IN  IF hits_poison(request(p, None))
           THEN /\ Panics(p, {})
                /\ UNCHANGED counters
         ELSE IF r.panic
           THEN /\ Panics(p, { guard("counters", "write") })
                /\ UNCHANGED counters
         ELSE /\ counters' = r.counters
              /\ Returns(p)
  /\ UNCHANGED << limits, qualified_counters, limit_windows, now, peak, other_stores >>

\* the counter's entry is in the cache: get_with runs no closure
cached(counter) ==
  QualifiedCounterValueSetKey(counter) \in DOMAIN qualified_counters

\* update_counter of a qualified counter: self.qualified_counters.get_with
UpdateCounterGetWith(p) ==
  /\ procs[p].pc = "get_with" /\ procs[p].op = "update_counter"
  /\ ~waits(p, None)
  /\ LET r == update_counter(procs[p].arg, 1)
     IN  IF ~cached(procs[p].arg)
           THEN /\ GoesOn(p, "limit_windows.read", {}, {})
                /\ UNCHANGED qualified_counters
         ELSE IF r.panic
           THEN /\ Panics(p, {})
                /\ UNCHANGED qualified_counters
         ELSE /\ qualified_counters' = r.qualified_counters
              /\ Returns(p)
  /\ UNCHANGED << limits, counters, limit_windows, now, peak, other_stores >>

\* update_counter: the closure of get_with reads self.limit_windows, the
\* entry enters the cache and is updated
UpdateCounterInit(p) ==
  /\ procs[p].pc = "limit_windows.read" /\ procs[p].op = "update_counter"
  /\ ~waits(p, None)
  /\ LET r == update_counter(procs[p].arg, 1)
     IN  IF hits_poison(request(p, None)) \/ r.panic
           THEN /\ Panics(p, {})
                /\ UNCHANGED qualified_counters
           ELSE /\ qualified_counters' = r.qualified_counters
                /\ Returns(p)
  /\ UNCHANGED << limits, counters, limit_windows, now, peak, other_stores >>

\* check_and_update ends: the decision on the batch of the one counter
CheckAndUpdateReturns(p) ==
  LET r == check_and_update(<< procs[p].arg >>, 1, FALSE)
  IN  /\ counters' = r.counters
      /\ qualified_counters' = r.qualified_counters
      /\ procs' = [ procs EXCEPT ![p] = Idle ]
      /\ last' = [ op |-> "check_and_update", auth |-> r.auth,
                   outcome |-> IF r.auth = None THEN "panic" ELSE "returned" ]
      /\ UNCHANGED run

\* check_and_update: self.counters.read().unwrap() and the loop over the
\* simple counters
CheckAndUpdateRead(p) ==
  /\ procs[p].pc = "counters.read" /\ procs[p].op = "check_and_update"
  /\ ~waits(p, None)
  /\ IF hits_poison(request(p, None))
       THEN /\ Panics(p, {})
            /\ UNCHANGED << counters, qualified_counters >>
     ELSE IF is_qualified(procs[p].arg)
       THEN /\ GoesOn(p, "get_with", {}, { guard("counters", "read") })
            /\ UNCHANGED << counters, qualified_counters >>
     ELSE CheckAndUpdateReturns(p)
  /\ UNCHANGED << limits, limit_windows, now, peak, other_stores >>

\* check_and_update: self.qualified_counters.get_with for the qualified
\* counter, the guard of the map held
CheckAndUpdateGetWith(p) ==
  /\ procs[p].pc = "get_with" /\ procs[p].op = "check_and_update"
  /\ ~waits(p, None)
  /\ IF ~cached(procs[p].arg)
       THEN /\ GoesOn(p, "limit_windows.read", {}, procs[p].held)
            /\ UNCHANGED << counters, qualified_counters >>
       ELSE CheckAndUpdateReturns(p)
  /\ UNCHANGED << limits, limit_windows, now, peak, other_stores >>

\* check_and_update: the closure of get_with reads self.limit_windows, the
\* guard of the map still held
CheckAndUpdateInit(p) ==
  /\ procs[p].pc = "limit_windows.read" /\ procs[p].op = "check_and_update"
  /\ ~waits(p, None)
  /\ IF hits_poison(request(p, None))
       THEN /\ Panics(p, procs[p].held)
            /\ UNCHANGED << counters, qualified_counters >>
       ELSE CheckAndUpdateReturns(p)
  /\ UNCHANGED << limits, limit_windows, now, peak, other_stores >>

NextOrder ==
  \/ \E p \in Procs, op \in StorageOps : \E arg \in StorageArgs(op) : Call(p, op, arg)
  \/ \E p \in Procs : AddLimitWrite(p)
  \/ \E p \in Procs : AddLimitCounter(p)
  \/ \E p \in Procs : UpdateLimitWrite(p)
  \/ \E p \in Procs : DeleteLimitRead(p)
  \/ \E p \in Procs : DeleteLimitCounters(p)
  \/ \E p \in Procs : DeleteLimitWrite(p)
  \/ \E p \in Procs : DeleteLimitsWrite(p)
  \/ \E p \in Procs : DeleteLimitsCounters(p)
  \/ \E p \in Procs : ClearWrite(p)
  \/ \E p \in Procs : ClearCountersWrite(p)
  \/ \E p \in Procs : GetCountersRead(p)
  \/ \E p \in Procs : GetCountersCounters(p)
  \/ \E p \in Procs : UpdateCounterWrite(p)
  \/ \E p \in Procs : UpdateCounterGetWith(p)
  \/ \E p \in Procs : UpdateCounterInit(p)
  \/ \E p \in Procs : CheckAndUpdateRead(p)
  \/ \E p \in Procs : CheckAndUpdateGetWith(p)
  \/ \E p \in Procs : CheckAndUpdateInit(p)

SpecOrder == Init /\ [][NextOrder]_vars

(***************************************************************************)
(* SpecMetrics: MetricsLayer (limitador-server/src/metrics.rs) under the   *)
(* callbacks of tracing.  spans[id] is a span of the registry: its name,   *)
(* its parent (0 for a root), its extensions span_state (the group_times   *)
(* of SpanState) and timings (Timings), whether it is entered, and, once   *)
(* closed, the Timings on_close computed for it.  consumed keeps the calls *)
(* made to the consumers.  Instant::now() is now.                          *)
(***************************************************************************)
SpanNames == {"should_rate_limit", "check_and_update", "datastore", "serialize"}

\* Timings::new
Timings_new == [ idle |-> 0, busy |-> 0, last |-> now ]

\* impl ops::Add for Timings
Timings_add(self, rhs) ==
  [ busy |-> self.busy + rhs.busy,
    idle |-> self.idle + rhs.idle,
    last |-> IF self.last < rhs.last THEN self.last ELSE rhs.last ]

\* SpanState::new
SpanState_new(group) == Put(EmptyMap, group, Timings_new)

\* SpanState::increment
increment(group_times, group, timings) ==
  IF group \in DOMAIN group_times
    THEN [ group_times EXCEPT ![group] = Timings_add(@, timings) ]
    ELSE Put(group_times, group, timings)

\* MetricsLayer::gather: the records of each aggregate
gather(groups_before, aggregate, records) ==
  IF aggregate \in DOMAIN groups_before THEN groups_before
  ELSE Put(groups_before, aggregate, records)

\* the layer of the model: two aggregates, the second a record of itself
groups ==
  gather(gather(EmptyMap, "should_rate_limit", {"datastore"}),
         "check_and_update", {"check_and_update", "datastore"})

\* the spans that are open
open_spans == { id \in DOMAIN spans : ~spans[id].closed }

\* on_new_span: the extensions of the new span
new_extensions(name, parent) ==
  LET inherited ==
        IF parent # 0 /\ spans[parent].span_state # None
          THEN Some(spans[parent].span_state[1])
          ELSE None
      span_state ==
        IF name \in DOMAIN groups
          THEN IF inherited # None
                 THEN Some(IF name \in DOMAIN inherited[1] THEN inherited[1]
                           ELSE Put(inherited[1], name, Timings_new))
                 ELSE Some(SpanState_new(name))
          ELSE inherited
      is_record ==
        /\ span_state # None
        /\ \E group \in DOMAIN span_state[1] : name \in groups[group]
  IN  [ span_state |-> span_state,
        timings |-> IF is_record THEN Some(Timings_new) ELSE None ]

\* Layer::on_new_span, for a new root or a new child of an open span
OnNewSpan(name, parent) ==
  /\ Len(spans) < MaxSpans
  /\ parent = 0 \/ parent \in open_spans
  /\ spans' = Append(spans,
                [ name |-> name, parent |-> parent,
                  span_state |-> new_extensions(name, parent).span_state,
                  timings |-> new_extensions(name, parent).timings,
                  entered |-> FALSE, closed |-> FALSE, closed_with |-> None ])
  /\ last' = [ op |-> "on_new_span", id |-> Len(spans) + 1 ]
  /\ UNCHANGED << storeVars, now, run, procs, peak, data, concurrent_counter, redis,
                  consumed >>

\* Layer::on_enter
OnEnter(id) ==
  /\ id \in open_spans
  /\ ~spans[id].entered
  /\ spans' = [ spans EXCEPT
                  ![id].entered = TRUE,
                  ![id].timings =
                     IF @ = None THEN None
                     ELSE Some([ @[1] EXCEPT !.idle = @ + (now - spans[id].timings[1].last),
                                             !.last = now ]) ]
  /\ last' = [ op |-> "on_enter", id |-> id ]
  /\ UNCHANGED << storeVars, now, run, procs, peak, data, concurrent_counter, redis,
                  consumed >>

\* Layer::on_exit
OnExit(id) ==
  /\ id \in open_spans
  /\ spans[id].entered
  /\ spans' = [ spans EXCEPT
                  ![id].entered = FALSE,
                  ![id].timings =
                     IF @ = None THEN None
                     ELSE Some([ @[1] EXCEPT !.busy = @ + (now - spans[id].timings[1].last),
                                             !.last = now ]) ]
  /\ last' = [ op |-> "on_exit", id |-> id ]
  /\ UNCHANGED << storeVars, now, run, procs, peak, data, concurrent_counter, redis,
                  consumed >>

\* on_close: the Timings t of the closing span, its group_times after the
\* 'aggregate loop, and the calls to the consumers; nothing of it without
\* the Timings extension, or without SpanState
closing(id) ==
  LET span == spans[id]
      t == [ span.timings[1] EXCEPT !.idle = @ + (now - span.timings[1].last) ]
      group_times ==
        [ group \in DOMAIN span.span_state[1] |->
            IF span.name \in groups[group]
              THEN increment(span.span_state[1], group, t)[group]
              ELSE span.span_state[1][group] ]
  IN  IF span.timings = None
        THEN [ t |-> None, span_state |-> span.span_state, consumed |-> consumed ]
      ELSE IF span.span_state = None
        THEN [ t |-> Some(t), span_state |-> None, consumed |-> consumed ]
      ELSE [ t |-> Some(t), span_state |-> Some(group_times),
             consumed |->
               IF span.name \in DOMAIN groups
                 THEN Append(consumed, [ aggregate |-> span.name,
                                         timings |-> group_times[span.name] ])
                 ELSE consumed ]

\* Layer::on_close: a span closes once it is exited and its children are
\* closed
OnClose(id) ==
  /\ id \in open_spans
  /\ ~spans[id].entered
  /\ \A child \in open_spans : spans[child].parent # id
  /\ spans' = [ spans EXCEPT ![id].closed = TRUE,
                             ![id].closed_with = closing(id).t,
                             ![id].span_state = closing(id).span_state ]
  /\ consumed' = closing(id).consumed
  /\ last' = [ op |-> "on_close", id |-> id ]
  /\ UNCHANGED << storeVars, now, run, procs, peak, data, concurrent_counter, redis >>

NextMetrics ==
  \/ Tick
  \/ \E name \in SpanNames, parent \in 0..MaxSpans : OnNewSpan(name, parent)
  \/ \E id \in 1..MaxSpans : OnEnter(id)
  \/ \E id \in 1..MaxSpans : OnExit(id)
  \/ \E id \in 1..MaxSpans : OnClose(id)

SpecMetrics == Init /\ [][NextMetrics]_vars

(***************************************************************************)
(* SpecReturn: next_at and return_to called on one ConcurrentCounter, one  *)
(* call at a time.  The counter's fields are 64-bit unsigned; the calls    *)
(* here keep the value under MaxValue.                                     *)
(***************************************************************************)
\* ConcurrentCounter::next_at run alone: the counter after the call and the
\* pair (value, expiry) it returns.  On the branch that opens a window the
\* compare_exchange yields Ok(previous expiry), and that is what is returned
ConcurrentCounter_next_at(c, at, delta) ==
  IF at >= c.expires_at
    THEN [ counter |-> [ c EXCEPT !.expires_at = at + c.duration,
                                  !.value = delta ],
           result |-> << delta, c.expires_at >> ]
    ELSE [ counter |-> [ c EXCEPT !.value = @ + delta ],
           result |-> << c.value + delta, c.expires_at >> ]

\* ConcurrentCounter::return_to run alone: the loop is entered when at is
\* the expiry, and its compare_exchange succeeds at once
return_to(c, at, delta) ==
  IF at = c.expires_at /\ c.value > delta
    THEN [ counter |-> [ c EXCEPT !.value = @ - delta ], result |-> TRUE ]
    ELSE [ counter |-> c, result |-> FALSE ]

\* the expiries a counter can have, which are the values of at worth trying
Expiries == 0..(MaxTime + ConcurrentCounter_new.duration)

\* a call of next_at at the current time
NextAt(delta) ==
  LET r == ConcurrentCounter_next_at(concurrent_counter, now, delta)
  IN  /\ r.counter.value <= MaxValue
      /\ concurrent_counter' = r.counter
      /\ last' = [ op |-> "next_at", at |-> now, delta |-> delta,
                   before |-> concurrent_counter, result |-> r.result ]
      /\ UNCHANGED << storeVars, now, run, procs, peak, data, redis, spans, consumed >>

\* a call of return_to
ReturnTo(at, delta) ==
  LET r == return_to(concurrent_counter, at, delta)
  IN  /\ concurrent_counter' = r.counter
      /\ last' = [ op |-> "return_to", at |-> at, delta |-> delta,
                   before |-> concurrent_counter, result |-> r.result ]
      /\ UNCHANGED << storeVars, now, run, procs, peak, data, redis, spans, consumed >>

NextReturn ==
  \/ Tick
  \/ \E delta \in 1..MaxDelta : NextAt(delta)
  \/ \E at \in Expiries, delta \in 1..MaxDelta : ReturnTo(at, delta)

SpecReturn == Init /\ [][NextReturn]_vars

(***************************************************************************)
(* SpecSpin: return_to in the steps of its loop, run by threads while      *)
(* other calls of next_at and return_to change the counter.  One call at a *)
(* time is followed through its steps; the calls of the other threads are  *)
(* taken whole.  procs[p] is the call of thread p: at, delta, and current, *)
(* its copy of the value.                                                  *)
(* FairSpecSpin lets every thread that is inside return_to take its next   *)
(* step sooner or later.                                                   *)
(***************************************************************************)
\* let mut current = self.value.load(nuclear)
ReturnToLoadValue(p, at, delta) ==
  /\ \A q \in Procs : procs[q].pc = "idle"
  /\ procs' = [ procs EXCEPT ![p] = [ pc |-> "while", at |-> at, delta |-> delta,
                                     current |-> concurrent_counter.value ] ]
  /\ last' = [ op |-> "load", proc |-> p ]
  /\ UNCHANGED << storeVars, now, run, peak, other_stores >>

\* while at == self.expires_at.load(nuclear) { if current > delta .. else
\* return false } false
ReturnToWhile(p) ==
  /\ procs[p].pc = "while"
  /\ IF procs[p].at = concurrent_counter.expires_at
          /\ procs[p].current > procs[p].delta
       THEN /\ procs' = [ procs EXCEPT ![p].pc = "cas" ]
            /\ last' = [ op |-> "while", proc |-> p ]
       ELSE /\ procs' = [ procs EXCEPT ![p] = Idle ]
            /\ last' = [ op |-> "returned", proc |-> p, result |-> FALSE ]
  /\ UNCHANGED << storeVars, now, run, peak, other_stores >>

\* self.value.compare_exchange(current, current - delta, ..):
\* Ok(_) => return true, Err(updated) => current = updated
ReturnToCompareExchange(p) ==
  /\ procs[p].pc = "cas"
  /\ IF concurrent_counter.value = procs[p].current
       THEN /\ concurrent_counter' =
                 [ concurrent_counter EXCEPT !.value = @ - procs[p].delta ]
            /\ procs' = [ procs EXCEPT ![p] = Idle ]
            /\ last' = [ op |-> "returned", proc |-> p, result |-> TRUE ]
       ELSE /\ concurrent_counter' = concurrent_counter
            /\ procs' = [ procs EXCEPT ![p].pc = "while",
                                       ![p].current = concurrent_counter.value ]
            /\ last' = [ op |-> "retry", proc |-> p ]
  /\ UNCHANGED << storeVars, now, run, peak, data, redis, spans, consumed >>

NextSpin ==
  \/ Tick
  \/ \E delta \in 1..MaxDelta : NextAt(delta)
  \/ \E at \in Expiries, delta \in 1..MaxDelta : ReturnTo(at, delta)
  \/ \E p \in Procs, at \in Expiries, delta \in 1..MaxDelta :
       ReturnToLoadValue(p, at, delta)
  \/ \E p \in Procs : ReturnToWhile(p)
  \/ \E p \in Procs : ReturnToCompareExchange(p)

SpecSpin == Init /\ [][NextSpin]_vars

FairSpecSpin ==
  /\ SpecSpin
  /\ \A p \in Procs : WF_vars(ReturnToWhile(p) \/ ReturnToCompareExchange(p))

(***************************************************************************)
(* SpecWidth: is_within_limits and check_and_update on the counter of the  *)
(* simple limit L1, with every delta of the unsigned range and with the    *)
(* arithmetic of that range: `value + delta` is the + of u64, which panics *)
(* on overflow in a build with overflow checks and wraps in one without;   *)
(* the fetch_add of the update always wraps.                               *)
(***************************************************************************)
Modulus == 2 ^ Width

wrapping_add(a, b) == (a + b) % Modulus

\* what `a + b <= max` comes to: "panic" when the sum overflows and the
\* build checks, else the comparison of the (wrapped) sum
sum_within(a, b, max, overflow_checks) ==
  IF a + b >= Modulus /\ overflow_checks THEN "panic"
  ELSE IF wrapping_add(a, b) <= max THEN "within" ELSE "exceeds"

\* InMemoryStorage::is_within_limits on the counter of L1
WideIsWithinLimits(delta, overflow_checks) ==
  /\ K1 \in DOMAIN counters
  /\ LET value == CounterValueSet_value(counters[K1], L1.seconds, now)
         r == sum_within(value, delta, L1.max_value, overflow_checks)
     IN  last' = [ op |-> "is_within_limits", delta |-> delta, value |-> value,
                   result |-> IF r = "panic" THEN None ELSE Some(r = "within") ]
  /\ UNCHANGED << storeVars, now, aux >>

\* InMemoryStorage::check_and_update on the batch of the counter of L1
WideCheckAndUpdate(delta, load_counters, overflow_checks) ==
  /\ K1 \in DOMAIN counters
  /\ LET value == CounterValueSet_value(counters[K1], L1.seconds, now)
         r == sum_within(value, delta, L1.max_value, overflow_checks)
         slot == expiring_value_of(counters[K1], L1.seconds)
         v == counters[K1][slot]
     IN  /\ counters' =
               IF r # "within" THEN counters
               ELSE IF now >= v.expiry
                 THEN [ counters EXCEPT ![K1][slot].value = delta,
                                        ![K1][slot].expiry = now + L1.seconds ]
               ELSE [ counters EXCEPT ![K1][slot].value = wrapping_add(@, delta) ]
         /\ last' = [ op |-> "check_and_update", delta |-> delta, value |-> value,
                      load_counters |-> load_counters,
                      result |-> IF r = "panic" THEN None
                                 ELSE IF r = "within" THEN Some(Ok)
                                 ELSE Some(Limited(L1.name)) ]
  /\ UNCHANGED << limits, qualified_counters, limit_windows, now, aux >>

NextWidth ==
  \/ Tick
  \/ add_limit(L1)
  \/ \E delta \in 0..(Modulus - 1), overflow_checks \in BOOLEAN :
       WideIsWithinLimits(delta, overflow_checks)
  \/ \E delta \in 0..(Modulus - 1), load_counters \in BOOLEAN,
        overflow_checks \in BOOLEAN :
       WideCheckAndUpdate(delta, load_counters, overflow_checks)

SpecWidth == Init /\ [][NextWidth]_vars

(***************************************************************************)
(* What the claims speak of.                                               *)
(***************************************************************************)
\* the last call was check_and_update and it returned auth
Decided(kind) ==
  /\ last.op = "check_and_update"
  /\ last.auth # None
  /\ last.auth[1].kind = kind

C2_WithinMax ==
  \A c \in Counters : stored_value(c) <= c.limit.max_value

\* C2 witness: a counter is full and the decision just made was refused
C2_Witness ==
  /\ Decided("Limited")
  /\ \E c \in InBatch(last.batch) : stored_value(c) = c.limit.max_value

\* the live count of the counter of L1, as a reader samples it now
live_value_of_C1 ==
  IF K1 \in DOMAIN counters THEN value_at(counters[K1][1], now) ELSE 0

\* C3: with decisions running at the same time on the simple counter of L1
\* (max M), the counter's live value is at every instant at most M + e,
\* where e is the largest number of decisions that were in their commit
\* phase at the same time.
C3_BoundedOverAdmission == live_value_of_C1 <= L1.max_value + peak

\* C4: in a run of successive check_and_update calls with delta d on the
\* counter of a simple limit with max M, begun with the counter at 0 and
\* kept inside one window, call number n returns Ok when n <= floor(M / d)
\* and Limited with the limit's name (None when it has none) when n is
\* larger.
C4_FirstFloorCallsOk ==
  (run # None /\ last.op = "check_and_update") =>
    last.auth = Some(IF run[1].calls <= run[1].limit.max_value \div run[1].delta
                       THEN Ok
                       ELSE Limited(run[1].limit.name))

\* the third call of a run with delta 1 on L1 (max 2) is refused, without a
\* name, after two calls that were allowed
C4_Witness ==
  /\ run # None
  /\ last.op = "check_and_update"
  /\ run[1].limit = L1
  /\ run[1].delta = 1
  /\ run[1].calls = 3
  /\ last.auth = Some(Limited(None))
  /\ stored_value(NewCounter(L1, EmptyMap)) = 2

\* C5: a check_and_update that returns Ok at time t restarts every counter
\* of its batch that was fresh or expired: the counter then reads the
\* call's delta at every time in [t, t + W) and 0 at every time from t + W
\* on; and a call whose counters are all fresh or expired (and whose delta
\* is within their max) is allowed.
C5_ExpiresAtWindowEnd ==
  [][ last'.op = "check_and_update" =>
        LET batch == last'.batch
            delta == last'.delta
        IN  /\ Decided("Ok")' =>
                 \A c \in InBatch(batch) :
                   now >= stored_slot(c).expiry =>
                     \A t \in now..(now + c.limit.seconds + 1) :
                       value_at(stored_slot(c)', t) =
                         IF t < now + c.limit.seconds THEN delta ELSE 0
            /\ (\A c \in InBatch(batch) :
                  now >= stored_slot(c).expiry /\ delta <= c.limit.max_value)
                 => Decided("Ok")'
    ]_vars

\* a decision was allowed on a counter that held the count of a window that
\* was over, and the counter now holds that decision's delta alone
C5_Witness ==
  /\ Decided("Ok")
  /\ \E c \in last.restarted :
       /\ stored_slot(c) = [ value |-> last.delta, expiry |-> now + c.limit.seconds ]
       /\ now >= c.limit.seconds

\* the call that just incremented counter c, if one did
incremented(c) ==
  \/ Decided("Ok") /\ c \in InBatch(last.batch)
  \/ last.op = "update_counter" /\ ~last.panic /\ last.counter = c

\* C6: an increment (by check_and_update or update_counter) of a counter
\* whose window is live adds delta to the count and leaves the expiry as it
\* is; an increment of a counter whose window is over sets the expiry to
\* now + window.
C6_FixedWindow ==
  [][ \A c \in Counters :
        incremented(c)' =>
          IF now < stored_slot(c).expiry
            THEN stored_slot(c)' = [ value |-> stored_slot(c).value + last'.delta,
                                     expiry |-> stored_slot(c).expiry ]
            ELSE stored_slot(c)'.expiry = now + c.limit.seconds
    ]_vars

\* a counter was incremented a second time, later in its window, and its
\* expiry is still the one the first increment set
C6_Witness ==
  \E c \in Counters :
    /\ incremented(c)
    /\ stored_slot(c).value > last.delta
    /\ now < stored_slot(c).expiry
    /\ stored_slot(c).expiry < now + c.limit.seconds

\* the least of a non-empty set of indices
first_of(is) == CHOOSE i \in is : \A j \in is : i <= j

\* the positions of a batch whose counter would exceed its max with delta
exceeding(batch, delta) ==
  { i \in 1..Len(batch) : stored_value(batch[i]) + delta > batch[i].limit.max_value }

\* C7, as claimed: when some counter of the batch would exceed its max, the
\* call returns Limited with the name of the first such counter in the
\* order of the batch, for load_counters true and false alike.
C7_FirstInBatchOrder ==
  [][ last'.op = "check_and_update" =>
        LET batch == last'.batch
            ex == exceeding(batch, last'.delta)
        IN  ex # {} =>
              last'.auth = Some(Limited(batch[first_of(ex)].limit.name))
    ]_vars

\* C7, amended: the call returns Limited with the name of the first simple
\* counter of the batch that would exceed its max or, when no simple
\* counter would, of the first qualified one (each kind in the order of the
\* batch), for load_counters true and false alike; it returns Ok when no
\* counter would exceed.
C7_FirstInProcessingOrder ==
  [][ last'.op = "check_and_update" =>
        LET batch == last'.batch
            ex == exceeding(batch, last'.delta)
            simple == { i \in ex : ~is_qualified(batch[i]) }
        IN  IF ex = {} THEN Decided("Ok")'
            ELSE last'.auth =
                   Some(Limited(batch[first_of(IF simple # {} THEN simple ELSE ex)]
                                  .limit.name))
    ]_vars

\* a call was refused on a batch whose first counter is qualified and whose
\* second is simple, both at their max, and it carries the simple one's name
C7_Witness ==
  /\ Decided("Limited")
  /\ Len(last.batch) = 2
  /\ is_qualified(last.batch[1])
  /\ ~is_qualified(last.batch[2])
  /\ exceeding(last.batch, last.delta) = {1, 2}
  /\ last.batch[1].limit.name # last.batch[2].limit.name
  /\ last.auth = Some(Limited(last.batch[2].limit.name))

\* C8, as claimed: is_within_limits(C, 0) is true for every counter C in
\* every reachable state, after any sequence of add_limit, update_counter,
\* check_and_update, delete and clear.
C8_NeutralAlways ==
  /\ \A c \in Counters : is_within_limits(c, 0)
  /\ (last.op = "is_within_limits" /\ last.delta = 0) => last.result

\* C8, amended: is_within_limits(C, 0) is true of every counter when the
\* store is built, and no call other than update_counter (add_limit,
\* check_and_update, the deletes, clear, the reads) nor the passing of time
\* makes it false.
C8_NeutralUnlessUpdateCounter ==
  [][ last'.op # "update_counter" =>
        \A c \in Counters : is_within_limits(c, 0) => is_within_limits(c, 0)'
    ]_vars

\* is_within_limits was asked with delta 0 about a counter that sits at its
\* max, and answered true
C8_Witness ==
  /\ last.op = "is_within_limits"
  /\ last.delta = 0
  /\ last.result
  /\ stored_value(last.counter) = last.counter.limit.max_value

\* C9: is_within_limits and is_rate_limited change nothing: the registry,
\* the simple-counter map, the keys of the qualified cache and every
\* counter's count and expiry are after the call what they were before it.
C9_ReadsChangeNothing ==
  [][ last'.op \in {"is_within_limits", "is_rate_limited"} =>
        /\ limits' = limits
        /\ counters' = counters
        /\ limit_windows' = limit_windows
        /\ DOMAIN qualified_counters' = DOMAIN qualified_counters
        /\ \A c \in Counters : stored_slot(c)' = stored_slot(c)
    ]_vars

\* is_rate_limited answered true for values whose qualified counter the
\* cache holds no entry for
C9_Witness ==
  /\ last.op = "is_rate_limited"
  /\ last.result
  /\ \E c \in counters_that_apply(last.namespace, last.values) :
       /\ is_qualified(c)
       /\ QualifiedCounterValueSetKey(c) \notin DOMAIN qualified_counters

\* C10: after delete_limit(L), get_counters for L's namespace holds no
\* counter of L.
C10_NoCounterOfDeletedLimit ==
  last.op = "delete_limit" =>
    \A c \in Storage_get_counters(last.limit.namespace) :
      ~LimitEq(c.limit, last.limit)

\* a qualified limit was deleted while the cache holds a live count for it
\* and its namespace still has another limit
C10_Witness ==
  /\ last.op = "delete_limit"
  /\ last.limit.variables # {}
  /\ last.limit.namespace \in DOMAIN limits
  /\ \E c \in Counters :
       /\ c.limit = last.limit
       /\ stored_value(c) > 0

\* C11: delete_limit of a qualified limit leaves no cache entry whose limit
\* key is that limit's, and when a qualified limit that is not registered
\* is registered (again), the counter of every bindings value reads 0.
C11_DeletedCountersAreGone ==
  [][ /\ (last'.op = "delete_limit" /\ last'.limit.variables # {}) =>
           \A qk \in DOMAIN qualified_counters' :
             qk.limit_key # CounterValueSetKey(last'.limit)
      /\ (last'.op = "add_limit" /\ last'.limit.variables # {} /\ last'.result) =>
           \A c \in Counters : c.limit = last'.limit => stored_value(c)' = 0
    ]_vars

\* C12: after clear(), every counter reads 0 and get_counters returns no
\* counter, for the registry's namespaces and for any set of limits.
C12_ClearResetsEverything ==
  last.op = "clear" =>
    /\ \A c \in Counters : stored_value(c) = 0
    /\ \A namespace \in Namespaces : Storage_get_counters(namespace) = {}
    /\ get_counters(Limits) = {}
    /\ ~get_counters_panics(Limits)

\* clear() was called while a simple and a qualified counter held a count
C12_Witness ==
  /\ last.op = "clear"
  /\ \E c \in last.held : is_qualified(c)
  /\ \E c \in last.held : ~is_qualified(c)

\* the windows, in seconds, are in strictly ascending order: sorted and
\* without a duplicate
ascending(seconds) ==
  \A i \in 1..(Len(seconds) - 1) : seconds[i] < seconds[i + 1]

\* the seconds of the slots of a CounterValueSet
seconds_of(values) == [ i \in 1..Len(values) |-> values[i].seconds ]

\* C13: add_limit with a limit that is already registered creates no second
\* accumulator (the simple map, the window lists and the cache are what
\* they were) and so leaves every count and expiry unchanged.
C13_ReaddingChangesNothing ==
  [][ (last'.op = "add_limit" /\ ~last'.result) =>
        /\ counters' = counters
        /\ limit_windows' = limit_windows
        /\ qualified_counters' = qualified_counters
    ]_vars

\* C14: after any sequence of add_window calls the slots of every
\* CounterValueSet of the simple map are in strictly ascending order of
\* seconds, and add_window with a window that has a slot leaves the set as
\* it is.
C14_AddWindowKeepsSorted ==
  [][ /\ \A k \in DOMAIN counters' : ascending(seconds_of(counters'[k]))
      /\ \A limit \in WindowLimits :
           LET k == CounterValueSetKey(limit)
           IN  ( /\ last'.op = "add_limit"
                 /\ last'.limit = limit
                 /\ limit.variables = {}
                 /\ k \in DOMAIN counters
                 /\ \E i \in 1..Len(counters[k]) :
                      counters[k][i].seconds = limit.seconds )
               => counters'[k] = counters[k]
    ]_vars

\* a window was added again to a set of two slots that holds a count
C14_Witness ==
  /\ last.op = "add_limit"
  /\ last.limit.variables = {}
  /\ ~last.result
  /\ LET values == counters[CounterValueSetKey(last.limit)]
     IN  /\ Len(values) = 2
         /\ values[1].seconds = last.limit.seconds
         /\ values[2].value > 0
         /\ now < values[2].expiry

\* C15: the window list that add_counter keeps for every qualified limit
\* key is in strictly ascending order (sorted, no duplicate), and so is
\* every CounterValueSet of the qualified cache.
C15_WindowListsSortedUnique ==
  /\ \A k \in DOMAIN limit_windows : ascending(limit_windows[k])
  /\ \A qk \in DOMAIN qualified_counters :
       ascending(seconds_of(qualified_counters[qk]))

\* the values fail a condition of the limit or lack one of its variables
fails(limit, values) ==
  \/ \E c \in limit.conditions :
       c.var \notin DOMAIN values \/ (c.op = "==") # (values[c.var] = c.lit)
  \/ \E v \in limit.variables : v \notin DOMAIN values

\* C17: for a query whose values fail a condition of a registered limit or
\* lack one of its variables, counters_that_apply yields no counter of
\* that limit, and is_rate_limited, update_counters and
\* check_rate_limited_and_update leave the count and the expiry of every
\* counter of that limit as they were.
C17_NonApplyingLimitUntouched ==
  [][ \A limit \in registered :
        ( /\ last'.op \in { "is_rate_limited", "update_counters",
                            "check_rate_limited_and_update" }
          /\ limit.namespace = last'.namespace
          /\ fails(limit, last'.values) )
        => /\ \A c \in counters_that_apply(last'.namespace, last'.values) :
                c.limit # limit
           /\ \A c \in Counters :
                c.limit = limit => stored_slot(c)' = stored_slot(c)
    ]_vars

\* a POST of user "a" was counted on the limit per user while the limit
\* for GET requests, which holds a count, was left alone
C17_Witness ==
  /\ last.op \in { "update_counters", "check_rate_limited_and_update" }
  /\ last.values = [ v \in {"method", "user"} |-> IF v = "method" THEN "POST" ELSE "a" ]
  /\ {L1, LQ} \subseteq registered
  /\ stored_slot(NewCounter(L1, EmptyMap)).value > 0
  /\ now < stored_slot(NewCounter(L1, EmptyMap)).expiry
  /\ stored_slot(NewCounter(LQ, last.values)).expiry = now + LQ.seconds

\* C20: add_limit returns true exactly when no equal limit is registered in
\* the limit's namespace; then the limit is registered; when an equal limit
\* is registered it returns false and the namespace's limits, the max_value
\* and the name of the registered one included, stay as they are.
C20_AddLimitResult ==
  [][ \A ns \in Namespaces :
        (last'.op = "add_limit" /\ last'.limit.namespace = ns) =>
        LET equal == { l \in get_limits(ns) : LimitEq(l, last'.limit) }
        IN  /\ last'.result = (equal = {})
            /\ equal = {} => get_limits(ns)' = get_limits(ns) \cup {last'.limit}
            /\ equal # {} => get_limits(ns)' = get_limits(ns)
    ]_vars

\* L1b was given while L1, equal to it, was registered with a count: false
\* came back and L1 is the one registered
C20_Witness ==
  /\ last.op = "add_limit"
  /\ last.limit = L1b
  /\ ~last.result
  /\ L1 \in registered
  /\ L1b \notin registered
  /\ stored_value(NewCounter(L1, EmptyMap)) > 0

\* the counters the last call was given
given ==
  IF last.op = "check_and_update" THEN InBatch(last.batch)
  ELSE IF last.op = "update_counter" THEN {last.counter}
  ELSE {}

C21_UpdateLimit ==
  [][ \A u \in RegistryLimits :
        (last'.op = "update_limit" /\ last'.limit = u) =>
          LET old == { l \in get_limits(u.namespace) : LimitEq(l, u) }
              differs == \E l \in old :
                           l.max_value # u.max_value \/ l.name # u.name
          IN  /\ last'.result = differs
              /\ differs =>
                   limits' = [ limits EXCEPT ![u.namespace] = (@ \ old) \cup {u} ]
              /\ ~differs => limits' = limits
              /\ counters' = counters
              /\ qualified_counters' = qualified_counters
              /\ \A c \in Counters : stored_slot(c)' = stored_slot(c)
    ]_vars

\* L1b took the place of L1, and the count made under L1 is still there
C21_Witness ==
  /\ last.op = "update_limit"
  /\ last.limit = L1b
  /\ last.result
  /\ L1b \in registered
  /\ L1 \notin registered
  /\ stored_value(NewCounter(L1, EmptyMap)) > 0

\* C22: no namespace of the registry maps to an empty set of limits, and
\* get_namespaces is exactly the set of the namespaces of the registered
\* limits.
C22_NoEmptyNamespace ==
  /\ \A ns \in DOMAIN limits : limits[ns] # {}
  /\ get_namespaces = { l.namespace : l \in registered }

\* the last limit of namespace "B" was deleted while "A" has limits: "B"
\* is gone and "A" is there
C22_Witness ==
  /\ last.op = "delete_limit"
  /\ last.limit = LB
  /\ get_namespaces = {"A"}
  /\ Cardinality(get_limits("A")) = 2

\* C23: after k reports (update_counters with delta 1) of one request that
\* began with its counters at 0, and while the window of every limit that
\* applies is the one the first report opened, is_rate_limited with delta 1
\* is true exactly when some limit that applies has max_value < k + 1.
C23_LimitedAfterMaxReports ==
  (run # None /\ last.op \in { "update_counters", "is_rate_limited", "tick" }) =>
    LET ns == run[1].namespace
        values == run[1].values
        k == run[1].calls
    IN  (\A l \in applying(ns, values) : now < run[1].start + l.seconds) =>
          /\ is_rate_limited(ns, values, 1)
               = (\E l \in applying(ns, values) : l.max_value < k + 1)
          /\ (last.op = "is_rate_limited" /\ last.namespace = ns
                /\ last.values = values) =>
               last.result = (\E l \in applying(ns, values) : l.max_value < k + 1)

\* a limit of 2 for a user's GET requests: the check after the second
\* report answers true, and did not after the first
C23_Witness ==
  /\ run # None
  /\ run[1].calls = 2
  /\ last.op = "is_rate_limited"
  /\ last.values = run[1].values
  /\ last.result
  /\ applying(run[1].namespace, run[1].values) = {L1, LQ}
  /\ now < run[1].start + 2

\* C24: with load_counters = true, when check_and_update returns, Ok or
\* Limited, every counter of the batch carries remaining = max - (v + delta),
\* or 0 when v + delta exceeds max, v being the value the counter had when
\* the call read it.
C24_RemainingLoaded ==
  [][ (last'.op = "check_and_update" /\ last'.load_counters /\ last'.auth # None) =>
        LET cs == processing_order(last'.batch)
            remaining == check_and_update(last'.batch, last'.delta, TRUE).remaining
        IN  /\ Len(remaining) = Len(last'.batch)
            /\ \A i \in 1..Len(cs) :
                 LET v == stored_value(cs[i])
                     max == cs[i].limit.max_value
                 IN  remaining[i] = Some(IF v + last'.delta <= max
                                           THEN max - (v + last'.delta)
                                           ELSE 0)
    ]_vars

\* a call with load_counters was refused on a batch of two counters, one of
\* which had room left for the delta
C24_Witness ==
  /\ Decided("Limited")
  /\ last.load_counters
  /\ Len(last.batch) = 2
  /\ \E i \in 1..2 :
       stored_value(last.batch[i]) + last.delta < last.batch[i].limit.max_value
  /\ \E i \in 1..2 :
       stored_value(last.batch[i]) + last.delta > last.batch[i].limit.max_value

\* the threads whose add_namespace call for the name returned true
returned_true(name) ==
  { p \in Procs : /\ procs[p].pc = "done" /\ procs[p].op = "add_namespace"
                  /\ procs[p].name = name /\ procs[p].result = Some(TRUE) }

\* the threads that called, or are calling, op for the name
callers(op, name) ==
  { p \in Procs : /\ procs[p].pc # "idle" /\ procs[p].op = op
                  /\ procs[p].name = name }

\* C25: add_namespace returns true exactly when the name was absent at its
\* insert under the write lock; whatever the interleaving, at most one call
\* per name returns true, and exactly one once the calls for a name that
\* only add_namespace was given are done; the name is stored once, under
\* its own key, and get_namespaces is exactly the set of the names added.
C25_AddNamespaceOnce ==
  [][ /\ \A p \in Procs :
           (procs'[p].pc = "done" /\ procs[p].pc # "done"
              /\ procs'[p].op = "add_namespace") =>
             procs'[p].result = Some(procs'[p].name \notin DOMAIN data)
      /\ \A name \in Names :
           /\ Cardinality(returned_true(name)') <= 1
           /\ ( /\ callers("add_namespace", name)' # {}
                /\ callers("add_limit", name)' = {}
                /\ \A p \in callers("add_namespace", name)' : procs'[p].pc = "done" )
              => Cardinality(returned_true(name)') = 1
      /\ \A k \in DOMAIN data' : data'[k].name = k
      /\ ConcurrentStorage_get_namespaces' =
           { name \in Names :
               returned_true(name)' # {} \/ callers("add_limit", name)' # {} }
    ]_vars

\* two calls for "foo" both found it absent under the read lock; one of
\* them returned true and the other false
C25_Witness ==
  \E p, q \in Procs :
    /\ procs[p].pc = "done" /\ procs[q].pc = "done"
    /\ procs[p].op = "add_namespace" /\ procs[q].op = "add_namespace"
    /\ procs[p].name = "foo" /\ procs[q].name = "foo"
    /\ ~procs[p].fast_exists /\ ~procs[q].fast_exists
    /\ procs[p].result = Some(TRUE)
    /\ procs[q].result = Some(FALSE)
    /\ ConcurrentStorage_get_namespaces = {"foo", "bar"}

\* C27: when the backend fails during AsyncRedisStorage::check_and_update
\* the call returns the error and the decision is aborted without commit:
\* no counter of the database has changed.
C27_AbortedWithoutCommit ==
  [][ (last'.op = "redis_check_and_update" /\ last'.result = "Err") =>
        redis' = redis
    ]_vars

\* every call made so far has returned, and all of them fell in the window
\* that is open in the counter
same_window ==
  /\ calls_made.calls > 0
  /\ \A p \in Procs : procs[p].pc = "idle"
  /\ concurrent_counter.expires_at - concurrent_counter.duration <= calls_made.lo
  /\ calls_made.hi < concurrent_counter.expires_at

\* C30: concurrent next_at calls never lose an increment: when the calls
\* made on a new counter, with deltas d1 .. dn, all fall in one window (one
\* of them opened it), the counter's value after them is d1 + ... + dn.
C30_NoLostIncrement ==
  same_window => concurrent_counter.value = calls_made.sum

\* every decision begun has returned, at least two of them returned Ok, all
\* of these with one delta and in the window that the counter's slot holds
cold_decisions_done ==
  /\ \A p \in Procs : procs[p].pc = "idle"
  /\ decisions_made.ok >= 2
  /\ decisions_made.uniform
  /\ KQ \in DOMAIN qualified_counters
  /\ qualified_counters[KQ][cold_slot].expiry - LQ.seconds <= decisions_made.lo
  /\ decisions_made.hi < qualified_counters[KQ][cold_slot].expiry

holders(kind) ==
  { p \in Procs : procs[p].pc = "locked" /\ procs[p].lock = kind }

\* C28: the decisions (is_within_limits, update_counter, check_and_update)
\* take only the read lock of the simple-counter map; the write lock is
\* held by add_counter, delete_counters and clear alone.
C28_DecisionsTakeReadLock ==
  \A p \in holders("write") : procs[p].op \in AdminOps

\* the store holds what a decision on the limit needs: a simple limit has
\* its entry in the simple-counter map with a slot for its window, and every
\* cached value set of a qualified limit has a slot for its window
has_its_slots(limit) ==
  LET k == CounterValueSetKey(limit)
  IN  IF limit.variables = {}
        THEN /\ k \in DOMAIN counters
             /\ expiring_value_of(counters[k], limit.seconds) # 0
        ELSE \A qk \in DOMAIN qualified_counters :
               qk.limit_key = k =>
                 expiring_value_of(qualified_counters[qk], limit.seconds) # 0

\* C29: in every state, the states between the steps of the registry's
\* operations included, every limit of the registry has its entry and its
\* slots in the counter store, and no check_and_update panics over a
\* counter of a limit of the registry.
C29_RegisteredLimitsHaveSlots ==
  /\ \A limit \in registered : has_its_slots(limit)
  /\ (last.op = "check_and_update" /\ last.auth = None) =>
       last.unregistered # {}

\* C31: return_to(at, delta) returns true and lowers the value by delta
\* when at is the counter's expiry and the value is at least delta; in every
\* other case it returns false and leaves value and expiry as they were.
C31_ReturnTo ==
  [][ last'.op = "return_to" =>
        IF last'.at = concurrent_counter.expires_at
             /\ concurrent_counter.value >= last'.delta
          THEN /\ last'.result
               /\ concurrent_counter' =
                    [ concurrent_counter EXCEPT !.value = @ - last'.delta ]
          ELSE /\ ~last'.result
               /\ concurrent_counter' = concurrent_counter
    ]_vars

\* the count that a reader saw before the last call, a next_at
count_before_next_at ==
  IF last.at >= last.before.expires_at THEN 0 ELSE last.before.value

\* C32: return_to called right after a next_at, before the window ends,
\* with the expiry that the next_at returned and with its delta, returns
\* true and brings the count back to what it was before the next_at, also
\* when the next_at opened a window.
C32_NextAtThenReturnTo ==
  [][ ( /\ last.op = "next_at"
        /\ last'.op = "return_to"
        /\ last'.at = last.result[2]
        /\ last'.delta = last.delta
        /\ now < concurrent_counter.expires_at )
      => /\ last'.result
         /\ concurrent_counter'.value = count_before_next_at
    ]_vars

\* C33: every call of return_to comes to its end, also while other threads
\* keep changing the value inside the same epoch.
C33_ReturnToTerminates ==
  \A p \in Procs : (procs[p].pc # "idle") ~> (procs[p].pc = "idle")

\* C34: a check_and_update with load_counters false that returns Limited
\* mutates nothing: the count and expiry of every counter stay as they
\* were, and the qualified cache holds the entries it held, no more and no
\* fewer.
C34_LimitedMutatesNothing ==
  [][ (Decided("Limited")' /\ ~last'.load_counters) =>
        /\ counters' = counters
        /\ qualified_counters' = qualified_counters
    ]_vars

\* C35: every Counter that get_counters returns for a limit carries the
\* remaining and the expires_in of the accumulator of that limit's own
\* window, also when the limit's key holds accumulators for several windows.
C35_CountersOfOwnWindow ==
  \A namespace \in Namespaces :
    ~get_counters_panics(get_limits(namespace)) =>
      \A c \in Storage_get_counters(namespace) :
        /\ c.remaining = c.limit.max_value - value_at(stored_slot(c), now)
        /\ c.expires_in = ttl(stored_slot(c), now)

\* C36: the remaining that get_counters reports never underflows: in every
\* state, also after update_counter has moved a counter above max_value, it
\* is a number from 0 to the limit's max_value.
C36_RemainingInRange ==
  \A namespace \in Namespaces :
    ~get_counters_panics(get_limits(namespace)) =>
      \A c \in Storage_get_counters(namespace) :
        0 <= c.remaining /\ c.remaining <= c.limit.max_value

\* C37: for every delta of the unsigned range, is_within_limits and
\* check_and_update compare value + delta with max_value without wrapping:
\* when value + delta is beyond the range, the call is refused (false,
\* Limited) and no counter changes.
C37_NoWrapAround ==
  [][ ( /\ last'.op \in {"is_within_limits", "check_and_update"}
        /\ last'.value + last'.delta > Modulus - 1 )
      => /\ last'.result = IF last'.op = "is_within_limits" THEN Some(FALSE)
                           ELSE Some(Limited(L1.name))
         /\ counters' = counters
    ]_vars

\* C38: delete_limit(L) changes the counters of L alone: the counter of
\* every other limit that stays registered keeps its count and its expiry,
\* and keeps the entry and the slot that later decisions need.
C38_DeleteLimitLeavesOthers ==
  [][ last'.op = "delete_limit" =>
        \A l \in SimpleWindowLimits :
          (l \in registered' /\ ~LimitEq(l, last'.limit)) =>
            /\ stored_slot(NewCounter(l, EmptyMap))' =
                 stored_slot(NewCounter(l, EmptyMap))
            /\ has_its_slots(l)'
    ]_vars

\* the order in which the locks are taken: the registry, then the
\* simple-counter map, then the window index
lock_rank(lock) ==
  CASE lock = "limits" -> 1
    [] lock = "counters" -> 2
    [] lock = "limit_windows" -> 3

\* every guard a thread holds is of a lock before the one it asks for
in_lock_order ==
  \A p \in Procs : \A x \in visits(p) :
    request(p, x) # None =>
      \A g \in guards_held(p) : lock_rank(g.lock) < lock_rank(request(p, x)[1].lock)

\* calls are under way and each of them waits
stuck ==
  /\ \E p \in Procs : procs[p].pc # "idle"
  /\ \A p \in Procs : procs[p].pc # "idle" => \A x \in visits(p) : waits(p, x)

\* C39: no interleaving of add_limit, update_limit, delete_limit,
\* delete_limits, clear, get_counters, update_counter and check_and_update
\* deadlocks: a thread asks for a lock only while the guards it holds are of
\* locks earlier in the one order (registry, simple-counter map, window
\* index), and while calls are under way one of them can take its step, so
\* that every call comes to its end
C39_NoDeadlock == in_lock_order /\ ~stuck

\* a thread that holds a guard waits for a lock another thread holds
C39_Witness ==
  \E p \in Procs : \E q \in Procs \ {p} :
    /\ guards_held(p) # {}
    /\ \E x \in visits(p) :
         /\ request(p, x) # None
         /\ ~granted(request(p, x))
         /\ \E g \in guards_held(q) : g.lock = request(p, x)[1].lock

\* the spans nested within a span: its children, and theirs
RECURSIVE nested_within(_, _)
nested_within(id, depth) ==
  IF depth = 0 THEN {}
  ELSE LET children == { c \in DOMAIN spans : spans[c].parent = id }
       IN  children \cup UNION { nested_within(c, depth - 1) : c \in children }

\* the record spans of an aggregate among the spans nested within one
record_spans(id) ==
  { r \in nested_within(id, MaxSpans) : spans[r].name \in groups[spans[id].name] }

RECURSIVE summed(_, _)
summed(ids, field) ==
  IF ids = {} THEN 0
  ELSE LET r == CHOOSE x \in ids : TRUE
       IN  spans[r].closed_with[1][field] + summed(ids \ {r}, field)

\* C40: when a span whose name was registered with gather as an aggregate
\* closes, its consumer is called exactly once, with the summed busy and
\* idle timings of all the record spans nested within it
C40_AggregateConsumed ==
  [][ \A id \in DOMAIN spans :
        ( /\ last'.op = "on_close" /\ last'.id = id
          /\ spans[id].name \in DOMAIN groups
          /\ \A r \in record_spans(id) : spans[r].closed_with # None ) =>
          /\ Len(consumed') = Len(consumed) + 1
          /\ consumed'[Len(consumed')].aggregate = spans[id].name
          /\ consumed'[Len(consumed')].timings.busy = summed(record_spans(id), "busy")
          /\ consumed'[Len(consumed')].timings.idle = summed(record_spans(id), "idle")
    ]_vars

====
